---- MODULE Spec2Model ----
(***************************************************************************)
(* Verification model of phaser-dev-ui's layout core.                      *)
(*                                                                         *)
(*   Part I   the frame-batched layout scheduler  (src/src/layoutAuto.ts)  *)
(*   Part II  the scroll viewport, DebugScrollContainer                    *)
(*            (TypeScript listing in src/docs/playground-argus.md)         *)
(*                                                                         *)
(* The program is single-threaded.  A handler is one action, except where  *)
(* it calls back into user code: a target's layout() may call any public   *)
(* operation of the scheduler before it returns or throws, so a flush pass *)
(* is a frame on `stack` and the re-entrant calls are steps taken while    *)
(* that frame is open.                                                     *)
(***************************************************************************)
EXTENDS Integers, Sequences, FiniteSets, TLC

\* ------------------------------------------------------------------ bounds
NumTargets == 2
MaxMany == 2
MaxDepth == 2

Targets == 1..NumTargets

\* ----------------------------------------------------------------- helpers
Range(s) == {s[i] : i \in 1..Len(s)}

Count(s, x) == Cardinality({i \in 1..Len(s) : s[i] = x})

\* index of the first occurrence of x in s, 0 when absent
Pos(s, x) == IF x \in Range(s)
             THEN CHOOSE i \in 1..Len(s) : s[i] = x /\ \A j \in 1..(i - 1) : s[j] # x
             ELSE 0

Without(s, x) == SelectSeq(s, LAMBDA y : y # x)

IsPrefix(s, t) == Len(s) <= Len(t) /\ \A i \in 1..Len(s) : s[i] = t[i]

SeqsUpTo(S, n) == UNION {[1..k -> S] : k \in 0..n}

\* =========================================================================
\* Part I.  layoutAuto(scene, options)
\* =========================================================================
VARIABLES
    watch,            \* which history this specification keeps: "passes" or "order" (never changes)
    dirty,            \* the Set `dirty`, as the sequence of its members in insertion order
    destroyed,        \* let destroyed
    isFlushing,       \* let isFlushing
    flushListener,    \* onFlushEvent is registered on scene.events[flushEvent]
    shutdownListener, \* the once("shutdown") listener is still registered
    stack,            \* open flushNow frames: [q |-> queue, i |-> index of the target whose layout() runs]
    \* ---- observation of the run (history, not program state)
    op,               \* the operation the last step entered
    called,           \* the targets whose layout() the last step invoked: none or one
    log,              \* layout() invocations since the latest top-level flush()/frame event began
    lastFlush,        \* what the latest top-level flush()/frame event saw when it was called
    order,            \* targets by first mark since the later of the last snapshot and their last remove/clear
    firstOrder,       \* targets by first mark since the last snapshot
    withdrawn,        \* targets remove()d and not marked dirty since
    deferred          \* targets marked from inside a pass and still to be laid out

schedProg == <<dirty, destroyed, isFlushing, flushListener, shutdownListener, stack>>
schedHist == <<op, called, log, lastFlush, order, firstOrder, withdrawn, deferred>>
schedVars == <<watch, schedProg, schedHist>>

\* (mutation of SetAdd: a re-added member moves to the end)
SetAddMovesLast(s, t) == Append(SelectSeq(s, LAMBDA y : y # t), t)

\* Set.prototype.add: a member keeps its place, a new one goes last
SetAdd(s, t) == IF t \in Range(s) THEN s ELSE Append(s, t)

\* Set.prototype.delete
SetDelete(s, t) == Without(s, t)

RECURSIVE SetAddAll(_, _)
SetAddAll(s, ts) == IF ts = <<>> THEN s ELSE SetAddAll(SetAdd(s, Head(ts)), Tail(ts))

RECURSIVE FirstSeen(_, _)
FirstSeen(s, ts) == IF ts = <<>> THEN s
                    ELSE FirstSeen(IF Head(ts) \in Range(s) THEN s ELSE s \o <<Head(ts)>>, Tail(ts))

\* a history variable moves only under the specification that keeps it
Kept(w, old, new) == IF watch = w THEN new ELSE old

InPass == stack # <<>>

TopLevel == stack = <<>>

NoFlushYet == [batch |-> <<>>, order |-> <<>>, first |-> <<>>,
               deferred |-> {}, outcome |-> "none"]

Seen(outcome) == [batch |-> dirty, order |-> order,
                  first |-> SelectSeq(firstOrder, LAMBDA t : t \in Range(dirty)),
                  deferred |-> deferred, outcome |-> outcome]

\* a public call made outside a pass ends the observation of the latest flush
Forget ==
    IF TopLevel
    THEN log' = <<>> /\ lastFlush' = NoFlushYet
    ELSE UNCHANGED <<log, lastFlush>>

SchedInit ==
    /\ dirty = <<>>
    /\ destroyed = FALSE
    /\ isFlushing = FALSE
    /\ flushListener = TRUE
    /\ shutdownListener = TRUE
    /\ stack = <<>>
    /\ op = "layoutAuto"
    /\ called = {}
    /\ log = <<>>
    /\ lastFlush = NoFlushYet
    /\ order = <<>>
    /\ firstOrder = <<>>
    /\ withdrawn = {}
    /\ deferred = {}

\* markDirty(target)
MarkDirty(t) ==
    /\ op' = "markDirty"
    /\ called' = {}
    /\ IF destroyed
       THEN UNCHANGED <<dirty, order, firstOrder, withdrawn, deferred>>
       ELSE /\ dirty' = SetAdd(dirty, t)
            /\ order' = FirstSeen(order, <<t>>)
            /\ firstOrder' = Kept("order", firstOrder, FirstSeen(firstOrder, <<t>>))
            /\ withdrawn' = Kept("passes", withdrawn, withdrawn \ {t})
            /\ deferred' = Kept("passes", deferred, IF InPass THEN deferred \cup {t} ELSE deferred)
    /\ Forget
    /\ UNCHANGED <<destroyed, isFlushing, flushListener, shutdownListener, stack>>

\* markDirtyMany(targets)
MarkDirtyMany(ts) ==
    /\ op' = "markDirtyMany"
    /\ called' = {}
    /\ IF destroyed \/ Len(ts) = 0
       THEN UNCHANGED <<dirty, order, firstOrder, withdrawn, deferred>>
       ELSE /\ dirty' = SetAddAll(dirty, ts)
            /\ order' = FirstSeen(order, ts)
            /\ firstOrder' = Kept("order", firstOrder, FirstSeen(firstOrder, ts))
            /\ withdrawn' = Kept("passes", withdrawn, withdrawn \ Range(ts))
            /\ deferred' = Kept("passes", deferred, IF InPass THEN deferred \cup Range(ts) ELSE deferred)
    /\ Forget
    /\ UNCHANGED <<destroyed, isFlushing, flushListener, shutdownListener, stack>>

\* remove(target)
Remove(t) ==
    /\ op' = "remove"
    /\ called' = {}
    /\ withdrawn' = Kept("passes", withdrawn, withdrawn \cup {t})
    /\ IF destroyed
       THEN UNCHANGED <<dirty, order, deferred>>
       ELSE /\ dirty' = SetDelete(dirty, t)
            /\ order' = Without(order, t)
            /\ deferred' = Kept("passes", deferred, deferred \ {t})
    /\ Forget
    /\ UNCHANGED <<destroyed, isFlushing, flushListener, shutdownListener, stack, firstOrder>>

\* clear()
Clear ==
    /\ op' = "clear"
    /\ called' = {}
    /\ IF destroyed
       THEN UNCHANGED <<dirty, order, deferred>>
       ELSE /\ dirty' = <<>>
            /\ order' = <<>>
            /\ deferred' = {}
    /\ Forget
    /\ UNCHANGED <<destroyed, isFlushing, flushListener, shutdownListener, stack,
                   firstOrder, withdrawn>>

\* destroyScheduler
DestroyScheduler ==
    /\ called' = {}
    /\ IF destroyed
       THEN UNCHANGED <<destroyed, dirty, flushListener, order, deferred>>
       ELSE /\ destroyed' = TRUE
            /\ dirty' = <<>>
            /\ flushListener' = FALSE
            /\ order' = <<>>
            /\ deferred' = {}
    /\ Forget
    /\ UNCHANGED <<isFlushing, stack, firstOrder, withdrawn>>

\* destroy()
Destroy ==
    /\ op' = "destroy"
    /\ DestroyScheduler
    /\ UNCHANGED shutdownListener

\* the scene emits "shutdown"; the listener was registered with once()
Shutdown ==
    /\ op' = "shutdown"
    /\ IF shutdownListener
       THEN /\ shutdownListener' = FALSE
            /\ DestroyScheduler
       ELSE /\ Forget
            /\ called' = {}
            /\ UNCHANGED <<schedProg, order, firstOrder, withdrawn, deferred>>

\* (mutation of FlushGuard: no isFlushing test)
FlushGuardReentrant == ~destroyed /\ dirty # <<>>

\* the early return of flushNow, negated
FlushGuard == ~destroyed /\ dirty # <<>> /\ ~isFlushing

\* (mutation of LoopContinues: no `if (destroyed) break`)
LoopIgnoresDestroy(top) == top.i < Len(top.q)

\* the loop of flushNow goes on to the next target of the queue
LoopContinues(top) == top.i < Len(top.q) /\ ~destroyed

\* an invocation that lays nothing out
FlushNothing ==
    /\ called' = {}
    /\ log' = IF TopLevel THEN <<>> ELSE log
    /\ lastFlush' = IF TopLevel THEN Seen("returned") ELSE lastFlush
    /\ UNCHANGED <<schedProg, order, firstOrder, withdrawn, deferred>>

\* flushNow, up to its first call of layout()
FlushNow ==
    IF FlushGuard /\ Len(stack) < MaxDepth
    THEN /\ isFlushing' = TRUE
         /\ stack' = Append(stack, [q |-> dirty, i |-> 1])
         /\ dirty' = <<>>
         /\ called' = {dirty[1]}
         /\ log' = IF TopLevel THEN <<dirty[1]>> ELSE Append(log, dirty[1])
         /\ lastFlush' = IF TopLevel THEN Seen("running") ELSE lastFlush
         /\ order' = <<>>
         /\ firstOrder' = <<>>
         /\ deferred' = {}
         /\ UNCHANGED <<destroyed, flushListener, shutdownListener, withdrawn>>
    ELSE FlushNothing

\* flush()
Flush ==
    /\ op' = "flush"
    /\ FlushNow

\* the scene emits the configured flush event: onFlushEvent, when still registered
FrameEvent ==
    /\ op' = "frame"
    /\ IF flushListener /\ ~(destroyed \/ dirty = <<>>)
       THEN FlushNow
       ELSE FlushNothing

\* the running layout() returns: flushNow goes round its loop, or leaves it
LayoutReturn ==
    /\ InPass
    /\ op' = "return"
    /\ LET top == stack[Len(stack)]
           rest == SubSeq(stack, 1, Len(stack) - 1)
       IN IF LoopContinues(top)
          THEN /\ stack' = Append(rest, [top EXCEPT !.i = @ + 1])
               /\ called' = {top.q[top.i + 1]}
               /\ log' = Append(log, top.q[top.i + 1])
               /\ UNCHANGED <<isFlushing, lastFlush>>
          ELSE /\ stack' = rest
               /\ isFlushing' = FALSE
               /\ called' = {}
               /\ log' = log
               /\ lastFlush' = IF rest = <<>> THEN [lastFlush EXCEPT !.outcome = "returned"]
                               ELSE lastFlush
    /\ UNCHANGED <<dirty, destroyed, flushListener, shutdownListener,
                   order, firstOrder, withdrawn, deferred>>

\* the running layout() throws: the exception leaves flushNow, which has no try/finally
LayoutThrow ==
    /\ InPass
    /\ op' = "throw"
    /\ called' = {}
    /\ stack' = SubSeq(stack, 1, Len(stack) - 1)
    /\ lastFlush' = IF Len(stack) = 1 THEN [lastFlush EXCEPT !.outcome = "threw"] ELSE lastFlush
    /\ UNCHANGED <<dirty, destroyed, isFlushing, flushListener, shutdownListener,
                   log, order, firstOrder, withdrawn, deferred>>

SchedNext ==
    \/ \E t \in Targets : MarkDirty(t)
    \/ \E ts \in SeqsUpTo(Targets, MaxMany) : MarkDirtyMany(ts)
    \/ \E t \in Targets : Remove(t)
    \/ Clear
    \/ Flush
    \/ FrameEvent
    \/ Destroy
    \/ Shutdown
    \/ LayoutReturn
    \/ LayoutThrow

\* =========================================================================
\* Part II.  DebugScrollContainer
\* =========================================================================
\* Lengths are pixels.  getViewportTop() and getViewportLeft() halve the size,
\* so they, and the content group's position that is computed from them, are
\* kept doubled (the names end in 2).  Item heights are even here, so a half
\* height is exact.  The thumb's geometry is kept as exact fractions; the
\* rounding of floating-point division is not modelled.  Panel, mask and colours
\* are drawn from the same fields and read by no operation, and are left out.
VARIABLES
    sc,     \* the container's fields
    last    \* history: the public operation that produced this state

scrollVars == <<sc, last>>

Max(a, b) == IF a >= b THEN a ELSE b

Min(a, b) == IF a <= b THEN a ELSE b

SetMax(S) == CHOOSE x \in S : \A y \in S : y <= x

SetMin(S) == CHOOSE x \in S : \A y \in S : x <= y

\* constructor defaults
DefaultWidth == 320
DefaultHeight == 220
DefaultPadding == 10
DefaultScrollbarWidth == 6
DefaultMinThumbHeight == 24
DefaultWheelStep == 24

\* Phaser.Math.Clamp(value, min, max)
Clamp(value, lo, hi) == Max(lo, Min(hi, value))

\* an option object's field, or the default when the field is undefined
Opt(o, k, default) == IF k \in DOMAIN o THEN o[k] ELSE default

GetViewportLeft2(c) == -c.width + 2 * c.paddingLeft

GetViewportTop2(c) == -c.height + 2 * c.paddingTop

GetViewportWidth(c) == Max(1, c.width - c.paddingLeft - c.paddingRight)

\* (mutation of GetViewportHeight: the padding is not taken off)
GetViewportHeightNoPadding(c) == Max(1, c.height)

GetViewportHeight(c) == Max(1, c.height - c.paddingTop - c.paddingBottom)

GetMaxScrollY(c) == Max(0, c.contentHeight - GetViewportHeight(c))

\* (mutation of GetItemHalfHeight: the explicit height is preferred)
HalfHeightPrefersHeight(item) ==
    IF item.height > 0 THEN item.height \div 2
    ELSE IF item.displayHeight > 0 THEN item.displayHeight \div 2
    ELSE IF item.hasBounds THEN item.boundsHeight \div 2
    ELSE 0

\* getItemHalfHeight: displayed height, else explicit height, else getBounds(), else 0
GetItemHalfHeight(item) ==
    IF item.displayHeight > 0 THEN item.displayHeight \div 2
    ELSE IF item.height > 0 THEN item.height \div 2
    ELSE IF item.hasBounds THEN item.boundsHeight \div 2
    ELSE 0

\* transform.y ?? 0
ItemY(item) == IF item.hasY THEN item.y ELSE 0

UpdateContentMetrics(c) ==
    IF c.list = {}
    THEN [c EXCEPT !.contentMinY = 0, !.contentHeight = 0]
    ELSE LET minY == SetMin({ItemY(it) - GetItemHalfHeight(it) : it \in c.list})
             maxY == SetMax({ItemY(it) + GetItemHalfHeight(it) : it \in c.list})
         IN [c EXCEPT !.contentMinY = minY, !.contentHeight = Max(0, maxY - minY)]

\* (mutation of ApplyScroll: the content group is moved relative to where it is)
ApplyScrollRelative(c) ==
    [c EXCEPT !.contentX2 = GetViewportLeft2(c),
              !.contentY2 = c.contentY2 - 2 * c.scrollY]

ApplyScroll(c) ==
    [c EXCEPT !.contentX2 = GetViewportLeft2(c),
              !.contentY2 = GetViewportTop2(c) - 2 * c.contentMinY - 2 * c.scrollY]

NoThumb == [drawn |-> FALSE]

\* redrawScrollbar.  thumbHeight = heightNum / den and
\* thumbY = top2 / 2 + offsetNum / (den * maxScroll)
RedrawScrollbar(c) ==
    LET maxScroll == GetMaxScrollY(c)
        viewportHeight == GetViewportHeight(c)
        barWidth == Max(2, c.scrollbarWidth)
        heightNum == Clamp(viewportHeight * viewportHeight,
                           c.scrollbarMinThumbHeight * c.contentHeight,
                           viewportHeight * c.contentHeight)
        travelNum == Max(0, viewportHeight * c.contentHeight - heightNum)
    IN [c EXCEPT !.thumb =
            IF ~c.scrollbarEnabled THEN NoThumb
            ELSE IF maxScroll <= 0 THEN NoThumb
            ELSE IF GetViewportWidth(c) <= barWidth THEN NoThumb
            ELSE [drawn |-> TRUE,
                  top2 |-> GetViewportTop2(c),
                  trackHeight |-> viewportHeight,
                  heightNum |-> heightNum,
                  offsetNum |-> c.scrollY * travelNum,
                  den |-> c.contentHeight,
                  maxScroll |-> maxScroll]]

\* (mutation of Layout: scrollY is not clamped again)
LayoutNoClamp(c) == RedrawScrollbar(ApplyScroll(UpdateContentMetrics(c)))

\* (mutation of Layout: a re-clamp that moves scrollY emits "scroll-changed")
LayoutEmits(c) ==
    LET m == UpdateContentMetrics(c)
        laid == RedrawScrollbar(ApplyScroll([m EXCEPT !.scrollY = Clamp(m.scrollY, 0, GetMaxScrollY(m))]))
    IN IF laid.scrollY = c.scrollY THEN laid
       ELSE [laid EXCEPT !.events = Append(@, <<laid.scrollY, GetMaxScrollY(laid)>>)]

\* layout()
Layout(c) ==
    LET m == UpdateContentMetrics(c)
    IN RedrawScrollbar(ApplyScroll([m EXCEPT !.scrollY = Clamp(m.scrollY, 0, GetMaxScrollY(m))]))

\* (mutation of SetScrollY: no early return when the clamped value is unchanged)
SetScrollYAlwaysEmits(c, value) ==
    LET moved == RedrawScrollbar(ApplyScroll([c EXCEPT !.scrollY = Clamp(value, 0, GetMaxScrollY(c))]))
    IN [moved EXCEPT !.events = Append(@, <<moved.scrollY, GetMaxScrollY(moved)>>)]

\* setScrollY(value)
SetScrollY(c, value) ==
    LET clamped == Clamp(value, 0, GetMaxScrollY(c))
    IN IF clamped = c.scrollY THEN c
       ELSE LET moved == RedrawScrollbar(ApplyScroll([c EXCEPT !.scrollY = clamped]))
            IN [moved EXCEPT !.events = Append(@, <<moved.scrollY, GetMaxScrollY(moved)>>)]

\* scrollBy(deltaY)
ScrollBy(c, deltaY) == IF deltaY = 0 THEN c ELSE SetScrollY(c, c.scrollY + deltaY)

ScrollToTop(c) == SetScrollY(c, 0)

ScrollToBottom(c) == SetScrollY(c, GetMaxScrollY(c))

\* Container.add: a child already in the list is not added again
AddItems(c, children) ==
    IF children = {} THEN c
    ELSE Layout([c EXCEPT !.list = @ \cup {it \in children : \A m \in c.list : m.id # it.id}])

AddItem(c, child) == Layout([c EXCEPT !.list = @ \cup {it \in {child} : \A m \in c.list : m.id # it.id}])

RemoveItem(c, id) ==
    IF \A m \in c.list : m.id # id THEN c
    ELSE Layout([c EXCEPT !.list = {m \in @ : m.id # id}])

RemoveAllItems(c) == IF c.list = {} THEN c ELSE Layout([c EXCEPT !.list = {}])

SetViewportSize(c, width, height) ==
    Layout([c EXCEPT !.width = Max(1, width), !.height = Max(1, height)])

SetPadding(c, o) ==
    Layout([c EXCEPT !.paddingLeft = Opt(o, "left", @),
                     !.paddingRight = Opt(o, "right", @),
                     !.paddingTop = Opt(o, "top", @),
                     !.paddingBottom = Opt(o, "bottom", @)])

SetStyle(c, o) ==
    Layout([c EXCEPT !.width = IF "width" \in DOMAIN o THEN Max(1, o.width) ELSE @,
                     !.height = IF "height" \in DOMAIN o THEN Max(1, o.height) ELSE @,
                     !.paddingLeft = Opt(o, "paddingLeft", @),
                     !.paddingRight = Opt(o, "paddingRight", @),
                     !.paddingTop = Opt(o, "paddingTop", @),
                     !.paddingBottom = Opt(o, "paddingBottom", @),
                     !.scrollbarEnabled = Opt(o, "scrollbarEnabled", @),
                     !.scrollbarWidth = Opt(o, "scrollbarWidth", @),
                     !.scrollbarMinThumbHeight = Opt(o, "scrollbarMinThumbHeight", @)])

\* the scene graph around the container: obj.parentContainer
ParentContainer(obj) ==
    CASE obj = "wheelZone" -> "viewport"
      [] obj = "content" -> "viewport"
      [] obj = "item" -> "content"
      [] obj = "label" -> "item"
      [] obj = "header" -> "viewport"
      [] OTHER -> "none"

RECURSIVE HasAncestor(_, _)
HasAncestor(obj, me) ==
    LET parent == ParentContainer(obj)
    IN IF parent = "none" THEN FALSE
       ELSE parent = me \/ HasAncestor(parent, me)

\* (mutation of OwnsObject: every object under the pointer is taken as owned)
OwnsAnything(obj) == obj = obj

OwnsObject(obj) == obj = "wheelZone" \/ HasAncestor(obj, "viewport")

IsWheelOverThisContainer(currentlyOver) == \E obj \in currentlyOver : OwnsObject(obj)

\* (mutation of HandleWheel: the event is suppressed whether or not it scrolled)
HandleWheelAlwaysSuppresses(c, currentlyOver, deltaY, hasEvent) ==
    IF ~c.wheelEnabled THEN c
    ELSE IF deltaY = 0 THEN c
    ELSE IF ~IsWheelOverThisContainer(currentlyOver) THEN c
    ELSE LET direction == IF deltaY > 0 THEN 1 ELSE -1
             scrolled == ScrollBy(c, direction * c.wheelStep)
         IN IF ~hasEvent THEN scrolled
            ELSE [scrolled EXCEPT !.prevented = TRUE, !.stopped = TRUE]

\* handleWheel(currentlyOver, deltaY, event)
HandleWheel(c, currentlyOver, deltaY, hasEvent) ==
    IF ~c.wheelEnabled THEN c
    ELSE IF deltaY = 0 THEN c
    ELSE IF ~IsWheelOverThisContainer(currentlyOver) THEN c
    ELSE LET direction == IF deltaY > 0 THEN 1 ELSE -1
             scrolled == ScrollBy(c, direction * c.wheelStep)
         IN IF c.scrollY = scrolled.scrollY THEN scrolled
            ELSE IF ~hasEvent THEN scrolled
            ELSE [scrolled EXCEPT !.prevented = TRUE, !.stopped = TRUE]

\* constructor(scene, options)
Construct(o) ==
    LET fields ==
            [width |-> Opt(o, "width", DefaultWidth),
             height |-> Opt(o, "height", DefaultHeight),
             paddingLeft |-> Opt(o, "paddingLeft", DefaultPadding),
             paddingRight |-> Opt(o, "paddingRight", DefaultPadding),
             paddingTop |-> Opt(o, "paddingTop", DefaultPadding),
             paddingBottom |-> Opt(o, "paddingBottom", DefaultPadding),
             scrollbarEnabled |-> Opt(o, "scrollbarEnabled", TRUE),
             scrollbarWidth |-> Opt(o, "scrollbarWidth", DefaultScrollbarWidth),
             scrollbarMinThumbHeight |-> Opt(o, "scrollbarMinThumbHeight", DefaultMinThumbHeight),
             wheelEnabled |-> Opt(o, "wheelEnabled", TRUE),
             wheelStep |-> Opt(o, "wheelStep", DefaultWheelStep),
             contentMinY |-> 0,
             contentHeight |-> 0,
             scrollY |-> 0,
             list |-> {},
             contentX2 |-> 0,
             contentY2 |-> 0,
             thumb |-> NoThumb,
             events |-> <<>>,
             prevented |-> FALSE,
             stopped |-> FALSE,
             wheelListener |-> TRUE,
             destroyed |-> FALSE]
    IN SetScrollY(Layout(fields), Opt(o, "initialScrollY", 0))

\* a public call starts with nothing emitted and a fresh platform event
Fresh(c) == [c EXCEPT !.events = <<>>, !.prevented = FALSE, !.stopped = FALSE]

\* ----------------------------------------------- inputs of the scroll checks
NumItems == 2

ItemIds == 1..NumItems

\* children the host adds: a displayed sprite, a zone with an explicit height
\* only, a graphics object measured by getBounds(), a bare object
Child(id, y) ==
    CASE id = 1 -> [id |-> id, hasY |-> TRUE, y |-> y, displayHeight |-> 40, height |-> 20,
                    hasBounds |-> TRUE, boundsHeight |-> 40]
      [] id = 2 -> [id |-> id, hasY |-> TRUE, y |-> y, displayHeight |-> 0, height |-> 40,
                    hasBounds |-> FALSE, boundsHeight |-> 0]
      [] id = 3 -> [id |-> id, hasY |-> TRUE, y |-> y, displayHeight |-> 0, height |-> 0,
                    hasBounds |-> TRUE, boundsHeight |-> 60]
      [] OTHER -> [id |-> id, hasY |-> FALSE, y |-> 0, displayHeight |-> 0, height |-> 0,
                   hasBounds |-> FALSE, boundsHeight |-> 0]

ChildYs == {0, 50}

Children == {Child(id, y) : id \in ItemIds, y \in ChildYs}

\* arrays for addItems: none, or two different children stacked
ChildBatches ==
    {{}} \cup {{Child(p[1], 0), Child(p[2], 50)} : p \in {q \in ItemIds \X ItemIds : q[1] # q[2]}}

ConstructorOptions ==
    {[height |-> 60, wheelStep |-> 30],
     [height |-> 60, wheelStep |-> 30, initialScrollY |-> 50],
     [wheelStep |-> 30, initialScrollY |-> -5]}

ViewportSizes == {<<320, 0>>, <<320, 60>>, <<320, 220>>}

PaddingOptions == {[top |-> 0, bottom |-> 0], [top |-> 10, bottom |-> 10, left |-> 10]}

StyleOptions == {[height |-> 60], [scrollbarEnabled |-> FALSE], [scrollbarEnabled |-> TRUE],
                 [paddingTop |-> 10, paddingBottom |-> 10]}

ScrollTargets == {-10, 0, 30, 1000}

ScrollDeltas == {-1000, 0, 30}

WheelDeltas == {-100, 0, 100}

OverLists == {{"wheelZone"}, {"label"}, {"header"}, {"stranger"}}

Did(name) == [name |-> name, arg |-> 0, lowered |-> FALSE]

ScrollInit ==
    /\ \E o \in ConstructorOptions : sc = Construct(o)
    /\ last = Did("constructor")

\* a public operation other than layout() and setScrollY()
Other(result) ==
    /\ sc' = result
    /\ last' = [name |-> "other", arg |-> 0, lowered |-> result.scrollY < sc.scrollY]

AddItemOp == \E child \in Children : Other(AddItem(Fresh(sc), child))

AddItemsOp == \E children \in ChildBatches : Other(AddItems(Fresh(sc), children))

RemoveItemOp == \E id \in ItemIds : Other(RemoveItem(Fresh(sc), id))

RemoveAllItemsOp == Other(RemoveAllItems(Fresh(sc)))

LayoutOp ==
    /\ sc' = Layout(Fresh(sc))
    /\ last' = [name |-> IF last.name \in {"layout", "layoutAgain"} THEN "layoutAgain" ELSE "layout",
                arg |-> 0, lowered |-> sc'.scrollY < sc.scrollY]

SetScrollYOp ==
    \E value \in ScrollTargets :
        /\ sc' = SetScrollY(Fresh(sc), value)
        /\ last' = [name |-> "setScrollY", arg |-> value, lowered |-> FALSE]

ScrollByOp == \E deltaY \in ScrollDeltas : Other(ScrollBy(Fresh(sc), deltaY))

ScrollToTopOp == Other(ScrollToTop(Fresh(sc)))

ScrollToBottomOp == Other(ScrollToBottom(Fresh(sc)))

SetViewportSizeOp == \E size \in ViewportSizes : Other(SetViewportSize(Fresh(sc), size[1], size[2]))

SetPaddingOp == \E o \in PaddingOptions : Other(SetPadding(Fresh(sc), o))

SetStyleOp == \E o \in StyleOptions : Other(SetStyle(Fresh(sc), o))

\* the scene's input plugin emits "wheel"
WheelOp ==
    \E over \in OverLists, deltaY \in WheelDeltas, hasEvent \in BOOLEAN :
        /\ sc.wheelListener
        /\ ("label" \in over => sc.list # {})
        /\ Other(HandleWheel(Fresh(sc), over, deltaY, hasEvent))

\* the host moves a child of the content group and does not call layout()
MoveChild ==
    \E m \in sc.list, y \in ChildYs :
        /\ m.hasY
        /\ sc' = [sc EXCEPT !.list = (@ \ {m}) \cup {[m EXCEPT !.y = y]}]
        /\ last' = Did("moveChild")

ScrollNext ==
    \/ AddItemOp
    \/ AddItemsOp
    \/ RemoveItemOp
    \/ RemoveAllItemsOp
    \/ LayoutOp
    \/ SetScrollYOp
    \/ ScrollByOp
    \/ ScrollToTopOp
    \/ ScrollToBottomOp
    \/ SetViewportSizeOp
    \/ SetPaddingOp
    \/ SetStyleOp
    \/ WheelOp
    \/ MoveChild

\* ------------------------------------------- a viewport in use, then destroyed
\* destroy(): the wheel handler is taken off scene.input, the mask is cleared
\* and Container.destroy() releases the panel, the content group with its
\* children and the scrollbar; the scroll fields are left as they are
DestroyViewport(c) ==
    [c EXCEPT !.wheelListener = FALSE, !.destroyed = TRUE,
              !.list = {}, !.contentX2 = 0, !.contentY2 = 0, !.thumb = NoThumb]

\* setScrollY(value), also on a destroyed viewport: the code has no guard, so it
\* assigns _scrollY and then calls into the released content group and
\* scrollbar, which either completes, and the event is emitted, or throws
\* before the emit; what is written to the released objects is not kept
SetScrollYOutcomes(c, value) ==
    LET clamped == Clamp(value, 0, GetMaxScrollY(c))
        moved == [c EXCEPT !.scrollY = clamped]
    IN IF ~c.destroyed THEN {SetScrollY(c, value)}
       ELSE IF clamped = c.scrollY THEN {c}
       ELSE {[moved EXCEPT !.events = Append(@, <<clamped, GetMaxScrollY(moved)>>)], moved}

ScrollByOutcomes(c, deltaY) ==
    IF deltaY = 0 THEN {c} ELSE SetScrollYOutcomes(c, c.scrollY + deltaY)

\* the stacked list of the playground: items of height 40, 10px apart, measured
\* in turn by displayed height, explicit height and getBounds()
StackIds == 1..10

ScenarioItem(k) ==
    [id |-> k, hasY |-> TRUE, y |-> 20 + 50 * (k - 1),
     displayHeight |-> IF k % 3 = 1 THEN 40 ELSE 0,
     height |-> IF k % 3 = 1 THEN 20 ELSE IF k % 3 = 2 THEN 40 ELSE 0,
     hasBounds |-> k % 3 # 2,
     boundsHeight |-> IF k % 3 = 1 THEN 60 ELSE IF k % 3 = 0 THEN 40 ELSE 0]

ScenarioItems == {ScenarioItem(k) : k \in StackIds}

\* a child with a height and no y, and a positioned child with nothing to measure
OddChildren ==
    {[id |-> 11, hasY |-> FALSE, y |-> 0, displayHeight |-> 0, height |-> 40,
      hasBounds |-> FALSE, boundsHeight |-> 0],
     [id |-> 12, hasY |-> TRUE, y |-> -30, displayHeight |-> 0, height |-> 0,
      hasBounds |-> FALSE, boundsHeight |-> 0]}

ViewportOptions ==
    {[height |-> 220, wheelStep |-> 30],
     [height |-> 220, wheelStep |-> 30, paddingTop |-> 0, paddingBottom |-> 0],
     [height |-> 220, wheelStep |-> 30, wheelEnabled |-> FALSE]}

\* the call just made: its name and arguments, and scrollY as it found it
Note(name, arg, over, event) ==
    [name |-> name, arg |-> arg, lowered |-> FALSE, over |-> over, event |-> event,
     from |-> sc.scrollY]

ViewportInit ==
    /\ \E o \in ViewportOptions : sc = Construct(o)
    /\ last = [name |-> "constructor", arg |-> 0, lowered |-> FALSE, over |-> {},
               event |-> FALSE, from |-> 0]

\* the host fills the list before it scrolls it
StackHeight == Cardinality({it \in sc.list : it.id \in StackIds})

Filling == ~sc.destroyed /\ sc.scrollY = 0

StackItemsOp ==
    /\ Filling
    /\ StackHeight = 0
    /\ sc' = AddItems(Fresh(sc), ScenarioItems)
    /\ last' = Note("addItems", 0, {}, FALSE)

AddOddOp ==
    \E child \in OddChildren :
        /\ Filling
        /\ StackHeight \in {0, Cardinality(StackIds)}
        /\ child \notin sc.list
        /\ sc' = AddItem(Fresh(sc), child)
        /\ last' = Note("addItem", 0, {}, FALSE)

ClearItemsOp ==
    /\ Filling
    /\ sc' = RemoveAllItems(Fresh(sc))
    /\ last' = Note("removeAllItems", 0, {}, FALSE)

RelayoutOp ==
    /\ ~sc.destroyed
    /\ sc' = Layout(Fresh(sc))
    /\ last' = Note("layout", 0, {}, FALSE)

SetOp ==
    \E value \in ScrollTargets :
        /\ sc' \in SetScrollYOutcomes(Fresh(sc), value)
        /\ last' = Note("setScrollY", value, {}, FALSE)

ByOp ==
    \E deltaY \in ScrollDeltas :
        /\ sc' \in ScrollByOutcomes(Fresh(sc), deltaY)
        /\ last' = Note("scrollBy", deltaY, {}, FALSE)

TopOp ==
    /\ sc' \in SetScrollYOutcomes(Fresh(sc), 0)
    /\ last' = Note("scrollToTop", 0, {}, FALSE)

BottomOp ==
    /\ sc' \in SetScrollYOutcomes(Fresh(sc), GetMaxScrollY(sc))
    /\ last' = Note("scrollToBottom", 0, {}, FALSE)

\* the scene's input plugin emits "wheel": the handler runs if still registered
WheelEventOp ==
    \E over \in OverLists, deltaY \in WheelDeltas, hasEvent \in BOOLEAN :
        /\ ("label" \in over => sc.list # {})
        /\ sc' = IF sc.wheelListener THEN HandleWheel(Fresh(sc), over, deltaY, hasEvent)
                 ELSE Fresh(sc)
        /\ last' = Note("wheel", deltaY, over, hasEvent)

DestroyOp ==
    /\ sc' = DestroyViewport(Fresh(sc))
    /\ last' = Note("destroy", 0, {}, FALSE)

ViewportNext ==
    \/ StackItemsOp
    \/ AddOddOp
    \/ ClearItemsOp
    \/ RelayoutOp
    \/ SetOp
    \/ ByOp
    \/ TopOp
    \/ BottomOp
    \/ WheelEventOp
    \/ DestroyOp

\* ------------------------------------------------ viewports of several sizes
\* a low viewport with every default, and a taller one with the thumb's minimum
\* height left alone, lowered and raised
ThumbOptions ==
    {[height |-> 40],
     [height |-> 120],
     [height |-> 120, scrollbarMinThumbHeight |-> 60],
     [height |-> 120, scrollbarMinThumbHeight |-> 200],
     [height |-> 120, scrollbarMinThumbHeight |-> 0, paddingTop |-> 0, paddingBottom |-> 0]}

ThumbStyles ==
    {[scrollbarMinThumbHeight |-> 10], [scrollbarMinThumbHeight |-> 100], [height |-> 600],
     [scrollbarEnabled |-> FALSE], [scrollbarEnabled |-> TRUE]}

ThumbInit ==
    /\ \E o \in ThumbOptions : sc = Construct(o)
    /\ last = [name |-> "constructor", arg |-> 0, lowered |-> FALSE, over |-> {},
               event |-> FALSE, from |-> 0]

SetStyleCall ==
    \E o \in ThumbStyles :
        /\ sc' = SetStyle(Fresh(sc), o)
        /\ last' = Note("setStyle", 0, {}, FALSE)

ThumbNext ==
    \/ StackItemsOp
    \/ ClearItemsOp
    \/ SetStyleCall
    \/ SetOp
    \/ ByOp
    \/ BottomOp

\* ------------------------------------------- every operation, each by name
LastItem == ScenarioItem(10)

EmitInit ==
    /\ \E o \in {[height |-> 120, wheelStep |-> 30], [height |-> 400, wheelStep |-> 60]} :
           sc = Construct(o)
    /\ last = [name |-> "constructor", arg |-> 0, lowered |-> FALSE, over |-> {},
               event |-> FALSE, from |-> 0]

AddItemsCall ==
    /\ sc.list = {}
    /\ sc' = AddItems(Fresh(sc), ScenarioItems)
    /\ last' = Note("addItems", 0, {}, FALSE)

AddItemCall ==
    /\ sc.list # {}
    /\ sc' = AddItem(Fresh(sc), LastItem)
    /\ last' = Note("addItem", 0, {}, FALSE)

RemoveItemCall ==
    /\ sc' = RemoveItem(Fresh(sc), LastItem.id)
    /\ last' = Note("removeItem", 0, {}, FALSE)

RemoveAllItemsCall ==
    /\ sc' = RemoveAllItems(Fresh(sc))
    /\ last' = Note("removeAllItems", 0, {}, FALSE)

SetViewportSizeCall ==
    \E size \in {<<320, 120>>, <<320, 400>>} :
        /\ sc' = SetViewportSize(Fresh(sc), size[1], size[2])
        /\ last' = Note("setViewportSize", 0, {}, FALSE)

SetPaddingCall ==
    \E o \in {[top |-> 0, bottom |-> 0]} :
        /\ sc' = SetPadding(Fresh(sc), o)
        /\ last' = Note("setPadding", 0, {}, FALSE)

SetHeightStyleCall ==
    \E o \in {[height |-> 600], [height |-> 120, paddingTop |-> 10, paddingBottom |-> 10]} :
        /\ sc' = SetStyle(Fresh(sc), o)
        /\ last' = Note("setStyle", 0, {}, FALSE)

\* the host moves the last child up or back down and does not call layout()
MoveLastChild ==
    \E m \in sc.list, y \in {300, LastItem.y} :
        /\ m.id = LastItem.id
        /\ m.y # y
        /\ sc' = [Fresh(sc) EXCEPT !.list = (@ \ {m}) \cup {[m EXCEPT !.y = y]}]
        /\ last' = Note("moveChild", 0, {}, FALSE)

\* a wheel event over the viewport's own wheel zone
WheelCall ==
    \E deltaY \in {-100, 100} :
        /\ sc' = HandleWheel(Fresh(sc), {"wheelZone"}, deltaY, TRUE)
        /\ last' = Note("wheel", deltaY, {"wheelZone"}, TRUE)

EmitNext ==
    \/ AddItemsCall
    \/ AddItemCall
    \/ RemoveItemCall
    \/ RemoveAllItemsCall
    \/ SetViewportSizeCall
    \/ SetPaddingCall
    \/ SetHeightStyleCall
    \/ MoveLastChild
    \/ RelayoutOp
    \/ SetOp
    \/ ByOp
    \/ TopOp
    \/ BottomOp
    \/ WheelCall

\* =========================================================================
\* Part III.  The viewport anchor: anchorToViewport and getSafeAreaInsets.
\* Positions are kept doubled (x2 = 2 * x), so that half sizes stay whole.
\* =========================================================================
VARIABLES an, alast

anchorVars == <<an, alast>>

Anchors ==
    {"top-left", "top-center", "top-right", "center-left", "center", "center-right",
     "bottom-left", "bottom-center", "bottom-right"}

ZeroInsets == [left |-> 0, right |-> 0, top |-> 0, bottom |-> 0]

\* getCssSafeAreaInsetsPx: the probe's computed padding; zero with no document
GetCssSafeAreaInsetsPx(scene) == Opt(scene, "css", ZeroInsets)

UnitScale == [xn |-> 1, xd |-> 1, yn |-> 1, yd |-> 1]

\* getCanvasToGameScale: x = xn / xd and y = yn / yd
GetCanvasToGameScale(scene) ==
    IF "canvas" \notin DOMAIN scene THEN UnitScale
    ELSE IF scene.canvas.width <= 0 \/ scene.canvas.height <= 0 THEN UnitScale
    ELSE [xn |-> scene.width, xd |-> scene.canvas.width,
          yn |-> scene.height, yd |-> scene.canvas.height]

\* px * (n / d)
Scaled(px, n, d) == (px * n) \div d

\* (mutation of GetSafeAreaInsets: the sums are not clamped at 0)
GetSafeAreaInsetsUnclamped(scene, options) ==
    LET extraInsets == Opt(options, "extraInsets", <<>>)
        cssInsetsPx == IF Opt(options, "useCssEnvInsets", TRUE)
                       THEN GetCssSafeAreaInsetsPx(scene) ELSE ZeroInsets
        scale == GetCanvasToGameScale(scene)
    IN [left |-> Scaled(cssInsetsPx.left, scale.xn, scale.xd) + Opt(extraInsets, "left", 0),
        right |-> Scaled(cssInsetsPx.right, scale.xn, scale.xd) + Opt(extraInsets, "right", 0),
        top |-> Scaled(cssInsetsPx.top, scale.yn, scale.yd) + Opt(extraInsets, "top", 0),
        bottom |-> Scaled(cssInsetsPx.bottom, scale.yn, scale.yd) + Opt(extraInsets, "bottom", 0)]

\* getSafeAreaInsets(scene, options)
GetSafeAreaInsets(scene, options) ==
    LET extraInsets == Opt(options, "extraInsets", <<>>)
        cssInsetsPx == IF Opt(options, "useCssEnvInsets", TRUE)
                       THEN GetCssSafeAreaInsetsPx(scene) ELSE ZeroInsets
        scale == GetCanvasToGameScale(scene)
    IN [left |-> Max(0, Scaled(cssInsetsPx.left, scale.xn, scale.xd) + Opt(extraInsets, "left", 0)),
        right |-> Max(0, Scaled(cssInsetsPx.right, scale.xn, scale.xd) + Opt(extraInsets, "right", 0)),
        top |-> Max(0, Scaled(cssInsetsPx.top, scale.yn, scale.yd) + Opt(extraInsets, "top", 0)),
        bottom |-> Max(0, Scaled(cssInsetsPx.bottom, scale.yn, scale.yd) + Opt(extraInsets, "bottom", 0))]

\* getViewportRect: scale.getViewPort(camera) if there is one, else the game size
GetViewportRect(scene) ==
    Opt(scene, "viewPort", [x |-> 0, y |-> 0, width |-> scene.width, height |-> scene.height])

\* getDisplaySize: displayed size, else explicit size, else getBounds(), else 0
GetDisplaySize(target) ==
    IF "displayWidth" \in DOMAIN target \/ "displayHeight" \in DOMAIN target
    THEN [width |-> Max(0, Opt(target, "displayWidth", 0)),
          height |-> Max(0, Opt(target, "displayHeight", 0))]
    ELSE IF "width" \in DOMAIN target \/ "height" \in DOMAIN target
    THEN [width |-> Max(0, Opt(target, "width", 0)), height |-> Max(0, Opt(target, "height", 0))]
    ELSE IF "bounds" \in DOMAIN target
    THEN [width |-> Max(0, target.bounds.width), height |-> Max(0, target.bounds.height)]
    ELSE [width |-> 0, height |-> 0]

\* (mutation of ComputeAnchoredX2: every anchor is placed from the left edge)
ComputeAnchoredXFromLeft(anchor, left, availableWidth, right, width) == 2 * left + width

\* computeAnchoredX, doubled; `width` is twice halfWidth
ComputeAnchoredX2(anchor, left, availableWidth, right, width) ==
    CASE anchor \in {"top-left", "center-left", "bottom-left"} -> 2 * left + width
      [] anchor \in {"top-center", "center", "bottom-center"} -> 2 * left + availableWidth
      [] anchor \in {"top-right", "center-right", "bottom-right"} -> 2 * right - width
      [] OTHER -> 2 * left + width

\* computeAnchoredY, doubled; `height` is twice halfHeight
ComputeAnchoredY2(anchor, top, availableHeight, bottom, height) ==
    CASE anchor \in {"top-left", "top-center", "top-right"} -> 2 * top + height
      [] anchor \in {"center-left", "center", "center-right"} -> 2 * top + availableHeight
      [] anchor \in {"bottom-left", "bottom-center", "bottom-right"} -> 2 * bottom - height
      [] OTHER -> 2 * top + height

\* (mutation of PlaceTarget: no early return on a destroyed handle)
PlaceTargetUnguarded(a) ==
    LET viewport == GetViewportRect(a.scene)
        insets == IF a.useSafeArea THEN GetSafeAreaInsets(a.scene, a.safeArea) ELSE ZeroInsets
        left == viewport.x + insets.left
        right == viewport.x + viewport.width - insets.right
        top == viewport.y + insets.top
        bottom == viewport.y + viewport.height - insets.bottom
        size == GetDisplaySize(a.target)
    IN IF ~Opt(a.target, "setPosition", FALSE) THEN [a EXCEPT !.threw = TRUE]
       ELSE [a EXCEPT
               !.x2 = ComputeAnchoredX2(a.anchor, left, Max(0, right - left), right, size.width)
                      + 2 * a.offsetX,
               !.y2 = ComputeAnchoredY2(a.anchor, top, Max(0, bottom - top), bottom, size.height)
                      + 2 * a.offsetY]

\* placeTarget; setTargetPosition throws when the target has no setPosition
PlaceTarget(a) ==
    IF a.destroyed THEN a
    ELSE LET viewport == GetViewportRect(a.scene)
             insets == IF a.useSafeArea THEN GetSafeAreaInsets(a.scene, a.safeArea) ELSE ZeroInsets
             left == viewport.x + insets.left
             right == viewport.x + viewport.width - insets.right
             top == viewport.y + insets.top
             bottom == viewport.y + viewport.height - insets.bottom
             size == GetDisplaySize(a.target)
         IN IF ~Opt(a.target, "setPosition", FALSE) THEN [a EXCEPT !.threw = TRUE]
            ELSE [a EXCEPT
                    !.x2 = ComputeAnchoredX2(a.anchor, left, Max(0, right - left), right, size.width)
                           + 2 * a.offsetX,
                    !.y2 = ComputeAnchoredY2(a.anchor, top, Max(0, bottom - top), bottom, size.height)
                           + 2 * a.offsetY]

\* destroyHandle
DestroyHandle(a) ==
    IF a.destroyed THEN a
    ELSE [a EXCEPT !.destroyed = TRUE,
                   !.resizeListener = IF a.autoResize THEN FALSE ELSE @,
                   !.shutdownListener = FALSE]

\* anchorToViewport(options), for a target that has a scene: the listeners are
\* registered, then the target is placed, then the handle is returned
AnchorToViewport(scene, options, target) ==
    LET autoResize == Opt(options, "autoResize", TRUE)
        attached ==
            [scene |-> scene,
             target |-> target,
             targetAlive |-> TRUE,
             x2 |-> 0,
             y2 |-> 0,
             anchor |-> Opt(options, "anchor", "top-left"),
             offsetX |-> Opt(options, "offsetX", 0),
             offsetY |-> Opt(options, "offsetY", 0),
             useSafeArea |-> Opt(options, "useSafeArea", TRUE),
             safeArea |-> Opt(options, "safeArea", <<>>),
             autoResize |-> autoResize,
             destroyed |-> FALSE,
             resizeListener |-> autoResize,
             shutdownListener |-> TRUE,
             destroyListener |-> Opt(target, "once", FALSE),
             threw |-> FALSE,
             handle |-> FALSE,
             insets |-> ZeroInsets]
        placed == PlaceTarget(attached)
    IN [placed EXCEPT !.handle = ~placed.threw]

\* a call or event starts with nothing thrown and nothing returned
Quiet(a) == [a EXCEPT !.threw = FALSE, !.insets = ZeroInsets]

\* ---------------------------------------------- inputs of the anchor checks
\* hosts: game size, scale.getViewPort(), the canvas's client rectangle and the
\* device's safe-area padding in CSS pixels
Scenes ==
    {[width |-> 800, height |-> 600, canvas |-> [width |-> 800, height |-> 600]],
     [width |-> 800, height |-> 600, canvas |-> [width |-> 800, height |-> 600],
      css |-> [left |-> 0, right |-> 0, top |-> 20, bottom |-> 0]],
     [width |-> 400, height |-> 300, canvas |-> [width |-> 800, height |-> 600],
      css |-> [left |-> 44, right |-> 44, top |-> 0, bottom |-> 20],
      viewPort |-> [x |-> 10, y |-> 20, width |-> 380, height |-> 280]],
     [width |-> 800, height |-> 600, canvas |-> [width |-> 400, height |-> 300],
      css |-> [left |-> 0, right |-> 0, top |-> 20, bottom |-> 10]],
     [width |-> 800, height |-> 600, canvas |-> [width |-> 800, height |-> 0],
      css |-> [left |-> 0, right |-> 0, top |-> 20, bottom |-> 0]],
     [width |-> 400, height |-> 300,
      css |-> [left |-> 0, right |-> 0, top |-> 20, bottom |-> 0]]}

SafeAreaOptionsSet ==
    {<<>>,
     [extraInsets |-> [top |-> 5]],
     [extraInsets |-> [top |-> -100, left |-> -1, right |-> 30]],
     [useCssEnvInsets |-> FALSE, extraInsets |-> [left |-> 500, bottom |-> 8]]}

AnchorOptionsSet ==
    {[anchor |-> a] : a \in Anchors}
    \cup {<<>>,
          [anchor |-> "top-right", offsetX |-> -10, offsetY |-> 10],
          [anchor |-> "bottom-center", autoResize |-> FALSE],
          [anchor |-> "center", useSafeArea |-> FALSE],
          [anchor |-> "center-right", safeArea |-> [extraInsets |-> [top |-> 5]]],
          [anchor |-> "bottom-left",
           safeArea |-> [useCssEnvInsets |-> FALSE, extraInsets |-> [left |-> 500, bottom |-> 8]]]}

\* targets: a displayed object, a sized zone that emits no events, a graphics
\* object measured by getBounds(), and an object that cannot be positioned
AnchorTargets ==
    {[displayWidth |-> 100, displayHeight |-> 50, width |-> 10, height |-> 10,
      setPosition |-> TRUE, once |-> TRUE],
     [width |-> 35, setPosition |-> TRUE],
     [bounds |-> [width |-> 60, height |-> 20], setPosition |-> TRUE, once |-> TRUE],
     [displayWidth |-> 100, displayHeight |-> 50, once |-> TRUE]}

Called(name) == [name |-> name, options |-> <<>>]

AnchorInit ==
    /\ \E scene \in Scenes, options \in AnchorOptionsSet, target \in AnchorTargets :
           an = AnchorToViewport(scene, options, target)
    /\ alast = Called("anchorToViewport")

\* scene.scale changes and emits "resize" to the listeners registered when the
\* emit starts; a listener of the host's called before onResize may destroy the handle
AnchorResize ==
    \E scene \in Scenes, hostDestroys \in BOOLEAN :
        LET resized == [Quiet(an) EXCEPT !.scene = scene]
            before == IF hostDestroys THEN DestroyHandle(resized) ELSE resized
        IN /\ hostDestroys => an.handle
           /\ an' = IF an.resizeListener THEN PlaceTarget(before) ELSE before
           /\ alast' = Called(IF hostDestroys THEN "resizeAndDestroy" ELSE "resize")

AnchorUpdate ==
    /\ an.handle
    /\ an' = PlaceTarget(Quiet(an))
    /\ alast' = Called("update")

AnchorDestroy ==
    /\ an.handle
    /\ an' = DestroyHandle(Quiet(an))
    /\ alast' = Called("destroy")

\* the target is destroyed and emits "destroy" to the once-listener of attachAutoDestroy
TargetDestroyEvent ==
    /\ an.targetAlive
    /\ an' = [(IF an.destroyListener THEN DestroyHandle(Quiet(an)) ELSE Quiet(an))
                 EXCEPT !.targetAlive = FALSE, !.destroyListener = FALSE]
    /\ alast' = Called("targetDestroy")

\* the scene emits "shutdown" to the once-listener
AnchorShutdown ==
    /\ an' = IF an.shutdownListener THEN DestroyHandle(Quiet(an)) ELSE Quiet(an)
    /\ alast' = Called("shutdown")

\* the host changes the target's size and does not call update()
TargetResized ==
    \E target \in AnchorTargets :
        /\ an.targetAlive
        /\ Opt(target, "setPosition", FALSE) = Opt(an.target, "setPosition", FALSE)
        /\ Opt(target, "once", FALSE) = Opt(an.target, "once", FALSE)
        /\ an' = [Quiet(an) EXCEPT !.target = target]
        /\ alast' = Called("targetResized")

\* getSafeAreaInsets(scene, options) called by the host
SafeAreaQuery ==
    \E options \in SafeAreaOptionsSet :
        /\ an' = [Quiet(an) EXCEPT !.insets = GetSafeAreaInsets(an.scene, options)]
        /\ alast' = [name |-> "getSafeAreaInsets", options |-> options]

AnchorNext ==
    \/ AnchorResize
    \/ AnchorUpdate
    \/ AnchorDestroy
    \/ TargetDestroyEvent
    \/ AnchorShutdown
    \/ TargetResized
    \/ SafeAreaQuery

\* =========================================================================
\* Part IV.  The data binding: bindDebugControl.  adapter.write and model.set
\* are calls into host code: while one runs it is a frame on `stack`, and the
\* host code may call back into the binding, change the model or the control,
\* return or throw.
\* =========================================================================
VARIABLES bd, bop

bindVars == <<bd, bop>>

NumValues == 2

Values == 1..NumValues

BindInPush == bd.stack # <<>>

\* (mutation of DestroyedGuard: the sync functions do not look at `destroyed`)
NeverDestroyed(b) == b.destroyed /\ ~b.destroyed

\* the `destroyed ||` of the three guards
DestroyedGuard(b) == b.destroyed

\* if (destroyed || pushingModelToControl) return
ControlGuard(b) == DestroyedGuard(b) \/ b.pushingModelToControl

\* syncModelIntoControl up to the call of adapter.write, which sets the control
SyncModelIntoControl(b) ==
    IF DestroyedGuard(b) \/ b.pushingControlToModel THEN b
    ELSE IF b.hasLastModelValue /\ b.model = b.lastModelValue THEN b
    ELSE [b EXCEPT !.pushingModelToControl = TRUE,
                   !.control = b.model,
                   !.stack = Append(@, [call |-> "write", value |-> b.model])]

\* the push of a control value: model.set is called, which sets the model
PushControlValue(b, value) ==
    IF ControlGuard(b) THEN b
    ELSE IF b.hasLastModelValue /\ value = b.lastModelValue THEN b
    ELSE [b EXCEPT !.pushingControlToModel = TRUE,
                   !.model = value,
                   !.stack = Append(@, [call |-> "set", value |-> value])]

\* syncControlIntoModel up to the call of model.set
SyncControlIntoModel(b) == PushControlValue(b, b.control)

\* the callback given to adapter.subscribe, up to the call of model.set
OnControlValue(b, value) == PushControlValue(b, value)

\* destroyBinding
DestroyBinding(b) ==
    IF b.destroyed THEN b
    ELSE [b EXCEPT !.destroyed = TRUE,
                   !.preupdateListener = FALSE,
                   !.shutdownListener = FALSE,
                   !.subscribed = IF b.unsubscribeControl THEN FALSE ELSE @,
                   !.unsubscribed = IF b.unsubscribeControl THEN @ + 1 ELSE @,
                   !.unsubscribeControl = FALSE]

\* bindDebugControl(options): the state when the binding is returned
BindDebugControl(options, model, control) ==
    LET bound ==
            [destroyed |-> FALSE,
             pushingModelToControl |-> FALSE,
             pushingControlToModel |-> FALSE,
             hasLastModelValue |-> FALSE,
             lastModelValue |-> model,
             unsubscribeControl |-> options.subscribe /\ options.returnsUnsubscribe,
             subscribed |-> options.subscribe,
             unsubscribed |-> 0,
             preupdateListener |-> options.scene,
             shutdownListener |-> options.scene,
             destroyListener |-> options.once,
             syncFromModelEachFrame |-> options.syncFromModelEachFrame,
             model |-> model,
             control |-> control,
             stack |-> <<>>,
             options |-> options]
    IN IF options.syncFromModelOnBind
       THEN [bound EXCEPT !.control = model, !.lastModelValue = model, !.hasLastModelValue = TRUE]
       ELSE bound

\* ---------------------------------------------- inputs of the binding checks
\* the control has a scene; the adapter has subscribe, which returns an
\* unsubscribe function; the control has once()
BindOptionsSet ==
    {[scene |-> TRUE, subscribe |-> TRUE, returnsUnsubscribe |-> TRUE, once |-> TRUE,
      syncFromModelOnBind |-> TRUE, syncFromModelEachFrame |-> TRUE],
     [scene |-> TRUE, subscribe |-> TRUE, returnsUnsubscribe |-> TRUE, once |-> TRUE,
      syncFromModelOnBind |-> FALSE, syncFromModelEachFrame |-> FALSE],
     [scene |-> FALSE, subscribe |-> TRUE, returnsUnsubscribe |-> FALSE, once |-> TRUE,
      syncFromModelOnBind |-> FALSE, syncFromModelEachFrame |-> TRUE],
     [scene |-> TRUE, subscribe |-> FALSE, returnsUnsubscribe |-> FALSE, once |-> FALSE,
      syncFromModelOnBind |-> TRUE, syncFromModelEachFrame |-> TRUE]}

BindInit ==
    /\ \E options \in BindOptionsSet, model \in Values, control \in Values :
           bd = BindDebugControl(options, model, control)
    /\ bop = "bindDebugControl"

\* host code may call in while there is room on the stack
Callable == Len(bd.stack) < MaxDepth

SyncFromModel ==
    /\ Callable
    /\ bd' = SyncModelIntoControl(bd)
    /\ bop' = "syncFromModel"

SyncFromControl ==
    /\ Callable
    /\ bd' = SyncControlIntoModel(bd)
    /\ bop' = "syncFromControl"

\* the scene emits "preupdate"
Preupdate ==
    /\ Callable
    /\ bd' = IF bd.preupdateListener /\ bd.syncFromModelEachFrame
             THEN SyncModelIntoControl(bd) ELSE bd
    /\ bop' = "preupdate"

\* the control takes a new value and emits its change event
ControlEvent ==
    \E value \in Values :
        /\ Callable
        /\ bd' = IF bd.subscribed THEN OnControlValue([bd EXCEPT !.control = value], value)
                 ELSE [bd EXCEPT !.control = value]
        /\ bop' = "controlEvent"

\* the host writes the model
ModelWrite ==
    \E value \in Values :
        /\ bd.model # value
        /\ bd' = [bd EXCEPT !.model = value]
        /\ bop' = "modelWrite"

\* adapter.write returns: pushingModelToControl = false, lastModelValue = modelValue
WriteReturn ==
    /\ BindInPush
    /\ bd.stack[Len(bd.stack)].call = "write"
    /\ bd' = [bd EXCEPT !.stack = SubSeq(@, 1, Len(@) - 1),
                        !.pushingModelToControl = FALSE,
                        !.lastModelValue = bd.stack[Len(bd.stack)].value,
                        !.hasLastModelValue = TRUE]
    /\ bop' = "writeReturn"

\* model.set returns: pushingControlToModel = false, lastModelValue = the value
SetReturn ==
    /\ BindInPush
    /\ bd.stack[Len(bd.stack)].call = "set"
    /\ bd' = [bd EXCEPT !.stack = SubSeq(@, 1, Len(@) - 1),
                        !.pushingControlToModel = FALSE,
                        !.lastModelValue = bd.stack[Len(bd.stack)].value,
                        !.hasLastModelValue = TRUE]
    /\ bop' = "setReturn"

\* adapter.write or model.set throws: the flags stay, and the exception unwinds
\* the calls in progress up to the one whose host code catches it
PushThrow ==
    \E kept \in 0..(Len(bd.stack) - 1) :
        /\ bd' = [bd EXCEPT !.stack = SubSeq(@, 1, kept)]
        /\ bop' = "throw"

\* binding.destroy()
BindDestroy ==
    /\ bd' = DestroyBinding(bd)
    /\ bop' = "destroy"

\* the control emits "destroy" to the once-listener of attachAutoDestroy
ControlDestroyEvent ==
    /\ bd.destroyListener
    /\ bd' = [DestroyBinding(bd) EXCEPT !.destroyListener = FALSE]
    /\ bop' = "controlDestroy"

\* the scene emits "shutdown" to the once-listener
BindShutdown ==
    /\ bd.shutdownListener
    /\ bd' = DestroyBinding(bd)
    /\ bop' = "shutdown"

BindNext ==
    \/ SyncFromModel
    \/ SyncFromControl
    \/ Preupdate
    \/ ControlEvent
    \/ ModelWrite
    \/ WriteReturn
    \/ SetReturn
    \/ PushThrow
    \/ BindDestroy
    \/ ControlDestroyEvent
    \/ BindShutdown

\* =========================================================================
\* Part V.  What bindDebugControl resolves before it binds: the model access
\* and the control adapter.  A function is named by where it comes from
\* ("option", "path", "switch", "value"); "undefined" is a missing one.
\* =========================================================================
VARIABLES cf

configVars == <<cf>>

MaxPathLen == 3

\* the characters a path is made of: a letter, a digit and the three separators
PathChars == {"a", "0", ".", "[", "]"}

Separators == {".", "[", "]"}

NoError == "none"

\* the end of the run of characters of `path` from i on that in `keep`
RECURSIVE RunEnd(_, _, _)
RunEnd(path, i, keep) ==
    IF i <= Len(path) /\ path[i] \in keep THEN RunEnd(path, i + 1, keep) ELSE i - 1

\* parsePath from position i: /[^.[\]]+|\[(\d+)\]/g matched from left to right,
\* a run of non-separators giving a key, "[digits]" an index, anything else skipped
RECURSIVE ParseFrom(_, _)
ParseFrom(path, i) ==
    IF i > Len(path) THEN <<>>
    ELSE IF path[i] \notin Separators
    THEN LET j == RunEnd(path, i, PathChars \ Separators)
         IN <<[key |-> SubSeq(path, i, j)]>> \o ParseFrom(path, j + 1)
    ELSE IF path[i] = "["
    THEN LET k == RunEnd(path, i + 1, {"0"})
         IN IF k >= i + 1 /\ k + 1 <= Len(path) /\ path[k + 1] = "]"
            THEN <<[index |-> SubSeq(path, i + 1, k)]>> \o ParseFrom(path, k + 2)
            ELSE ParseFrom(path, i + 1)
    ELSE ParseFrom(path, i + 1)

\* parsePath(path)
ParsePath(path) == ParseFrom(path, 1)

\* resolveModelAccess(options)
ResolveModelAccess(options) ==
    IF Opt(options, "getValue", FALSE) /\ Opt(options, "setValue", FALSE)
    THEN [get |-> "option", set |-> "option", threw |-> NoError]
    ELSE IF ~Opt(options, "target", FALSE) \/ Opt(options, "path", <<>>) = <<>>
    THEN [get |-> "undefined", set |-> "undefined",
          threw |-> "provide either getValue+setValue or target+path"]
    ELSE IF Len(ParsePath(options.path)) = 0
    THEN [get |-> "undefined", set |-> "undefined", threw |-> "path cannot be empty"]
    ELSE [get |-> "path", set |-> "path", threw |-> NoError]

\* inferAdapter(control); `control` is the set of methods the control has
InferAdapter(control) ==
    IF {"getCurrentOption", "setOptionByKey", "on", "off"} \subseteq control
    THEN [read |-> "switch", write |-> "switch", subscribe |-> "switch"]
    ELSE IF {"getValue", "setValue"} \subseteq control
    THEN [read |-> "value", write |-> "value",
          subscribe |-> IF {"on", "off"} \subseteq control THEN "value" ELSE "undefined"]
    ELSE <<>>

\* partial?.f ?? inferred?.f
Resolved(partial, inferred, f) ==
    IF Opt(partial, f, "undefined") # "undefined" THEN partial[f]
    ELSE Opt(inferred, f, "undefined")

\* (mutation of ResolveControlAdapter: a missing read or write is let through)
ResolveControlAdapterLenient(control, partial) ==
    LET inferred == InferAdapter(control)
    IN [read |-> Resolved(partial, inferred, "read"),
        write |-> Resolved(partial, inferred, "write"),
        subscribe |-> Resolved(partial, inferred, "subscribe"),
        threw |-> NoError]

\* resolveControlAdapter(control, partial)
ResolveControlAdapter(control, partial) ==
    LET inferred == InferAdapter(control)
        read == Resolved(partial, inferred, "read")
        write == Resolved(partial, inferred, "write")
    IN [read |-> read,
        write |-> write,
        subscribe |-> Resolved(partial, inferred, "subscribe"),
        threw |-> IF read = "undefined" \/ write = "undefined"
                  THEN "could not infer control adapter" ELSE NoError]

\* bindDebugControl(options) up to its first listener: the model access is
\* resolved, then the adapter; an error of either leaves the call at once
BindResolve(options, control) ==
    LET model == ResolveModelAccess(options)
        adapter == ResolveControlAdapter(control, Opt(options, "adapter", <<>>))
        threw == IF model.threw # NoError THEN model.threw ELSE adapter.threw
    IN [options |-> options,
        control |-> control,
        model |-> model,
        adapter |-> adapter,
        threw |-> threw,
        returned |-> threw = NoError,
        preupdateListener |-> threw = NoError,
        subscribed |-> threw = NoError /\ adapter.subscribe # "undefined",
        late |-> NoError,
        op |-> "bindDebugControl"]

\* a call of resolved functions: calling a missing one is a TypeError
CallResolved(c, fns, name) ==
    [c EXCEPT !.late = IF "undefined" \in fns THEN "TypeError" ELSE @, !.op = name]

\* ------------------------------------------ inputs of the resolution checks
Paths == SeqsUpTo(PathChars, MaxPathLen)

ModelOptionsSet ==
    {[target |-> TRUE, path |-> p] : p \in Paths}
    \cup {[getValue |-> g, setValue |-> s, target |-> t] : g, s, t \in BOOLEAN}
    \cup {[getValue |-> g, setValue |-> s, path |-> <<"a", ".", "a">>] : g, s \in BOOLEAN}
    \cup {[getValue |-> TRUE, target |-> TRUE, path |-> p] : p \in {<<"a">>, <<".">>, <<"[", "0", "]">>}}

AdapterOptionsSet ==
    {<<>>,
     [read |-> "option"],
     [write |-> "option"],
     [read |-> "option", write |-> "option"],
     [read |-> "option", write |-> "option", subscribe |-> "option"],
     [subscribe |-> "option"],
     [read |-> "undefined", write |-> "option"]}

Controls ==
    {{"getCurrentOption", "setOptionByKey", "on", "off"},
     {"getCurrentOption", "setOptionByKey", "setOptionIndex"},
     {"getValue", "setValue", "on", "off"},
     {"getValue", "setValue"},
     {"getValue", "on", "off"},
     {}}

\* either the model side or the adapter side of the options is varied
ConfigInit ==
    \/ \E options \in ModelOptionsSet, control \in {{"getValue", "setValue", "on", "off"}, {}} :
           cf = BindResolve(options, control)
    \/ \E options \in {[getValue |-> TRUE, setValue |-> TRUE], [target |-> TRUE]},
          partial \in AdapterOptionsSet, control \in Controls :
           cf = BindResolve(options @@ [adapter |-> partial], control)

\* the scene emits "preupdate": the poll reads the model and writes the control
ConfigPreupdate ==
    cf' = IF cf.preupdateListener
          THEN CallResolved(cf, {cf.model.get, cf.adapter.write}, "preupdate")
          ELSE [cf EXCEPT !.op = "preupdate"]

\* the control emits its change event: the callback sets the model
ConfigControlEvent ==
    cf' = IF cf.subscribed
          THEN CallResolved(cf, {cf.model.set}, "controlEvent")
          ELSE [cf EXCEPT !.op = "controlEvent"]

\* syncFromControl() on the binding that was returned
ConfigSyncFromControl ==
    /\ cf.returned
    /\ cf' = CallResolved(cf, {cf.adapter.read, cf.model.set}, "syncFromControl")

\* the events of a binding are followed with the anchor as it was attached, the
\* events of an anchor with the binding as it was bound
ConfigNext ==
    \/ ConfigPreupdate /\ alast.name = "anchorToViewport" /\ UNCHANGED anchorVars
    \/ ConfigControlEvent /\ alast.name = "anchorToViewport" /\ UNCHANGED anchorVars
    \/ ConfigSyncFromControl /\ alast.name = "anchorToViewport" /\ UNCHANGED anchorVars
    \/ AnchorResize /\ cf.op = "bindDebugControl" /\ UNCHANGED configVars
    \/ AnchorUpdate /\ cf.op = "bindDebugControl" /\ UNCHANGED configVars

\* =========================================================================
\* Part VI.  The button: DebugButton.  `over` is the host's knowledge of where
\* the pointer is; `calls` are the click handlers run by the last event, each
\* with the enabled flag it found.
\* =========================================================================
VARIABLES btn

buttonVars == <<btn>>

MaxHandlers == 2

\* resolveVisualState
ResolveVisualState(b) ==
    IF ~b.isEnabled THEN "disabled"
    ELSE IF b.isHovering THEN "hover"
    ELSE "normal"

\* applyVisualState: the colours of the resolved state are drawn
ApplyVisualState(b) == [b EXCEPT !.drawn = ResolveVisualState(b)]

\* setEnabled(enabled)
SetEnabled(b, enabled) ==
    IF b.isEnabled = enabled THEN b
    ELSE ApplyVisualState([b EXCEPT !.isEnabled = enabled,
                                    !.isHovering = FALSE,
                                    !.cursor = IF enabled THEN "pointer" ELSE "default"])

\* the "pointerover" listener of setupInteraction
OnPointerOver(b) ==
    IF ~b.isEnabled THEN b ELSE ApplyVisualState([b EXCEPT !.isHovering = TRUE])

\* the "pointerout" listener of setupInteraction
OnPointerOut(b) ==
    IF ~b.isEnabled THEN b ELSE ApplyVisualState([b EXCEPT !.isHovering = FALSE])

\* what a click handler of the host does with the button it is given
RunHandler(b, handler) ==
    LET entered == [b EXCEPT !.calls = Append(@, [handler |-> handler, enabled |-> b.isEnabled])]
    IN IF handler = "disables" THEN SetEnabled(entered, FALSE) ELSE entered

\* (mutation of ClickGuard: the listener does not look at the flag)
ClickUnguarded(b) == TRUE

\* the `if (this._isEnabled)` of a "pointerup" listener
ClickGuard(b) == b.isEnabled

\* "pointerup" is emitted to the listeners in the order they were registered
RECURSIVE OnPointerUp(_, _)
OnPointerUp(b, handlers) ==
    IF handlers = <<>> THEN b
    ELSE OnPointerUp(IF ClickGuard(b) THEN RunHandler(b, Head(handlers)) ELSE b, Tail(handlers))

\* new DebugButton(scene, options)
NewButton(options) ==
    ApplyVisualState(
        [isEnabled |-> Opt(options, "enabled", TRUE),
         isHovering |-> FALSE,
         cursor |-> "pointer",
         drawn |-> "normal",
         handlers |-> IF "onClick" \in DOMAIN options THEN <<options.onClick>> ELSE <<>>,
         over |-> FALSE,
         calls |-> <<>>,
         op |-> "constructor"])

\* a call or event starts with no handler run
Pressed(b, name) == [b EXCEPT !.calls = <<>>, !.op = name]

\* --------------------------------------------- inputs of the button checks
HandlerKinds == {"plain", "disables"}

ButtonOptionsSet ==
    {<<>>, [enabled |-> FALSE], [enabled |-> TRUE, onClick |-> "plain"],
     [enabled |-> FALSE, onClick |-> "plain"], [onClick |-> "disables"]}

ButtonInit == \E options \in ButtonOptionsSet : btn = NewButton(options)

\* button.onClick(handler)
OnClickOp ==
    \E handler \in HandlerKinds :
        /\ Len(btn.handlers) < MaxHandlers
        /\ btn' = [Pressed(btn, "onClick") EXCEPT !.handlers = Append(@, handler)]

\* button.setEnabled(enabled)
SetEnabledOp ==
    \E enabled \in BOOLEAN :
        btn' = SetEnabled(Pressed(btn, IF enabled THEN "enable" ELSE "disable"), enabled)

\* the pointer enters the hit zone, which stays interactive when disabled
PointerOver ==
    /\ ~btn.over
    /\ btn' = OnPointerOver([Pressed(btn, "pointerover") EXCEPT !.over = TRUE])

\* the pointer leaves the hit zone
PointerOut ==
    /\ btn.over
    /\ btn' = OnPointerOut([Pressed(btn, "pointerout") EXCEPT !.over = FALSE])

\* the pointer is released over the hit zone
PointerUp ==
    /\ btn.over
    /\ btn' = OnPointerUp(Pressed(btn, "pointerup"), btn.handlers)

ButtonNext ==
    \/ OnClickOp
    \/ SetEnabledOp
    \/ PointerOver
    \/ PointerOut
    \/ PointerUp

\* =========================================================================
\* Part VII.  The layout containers: DebugRowContainer and
\* DebugColumnContainer.  Positions are kept doubled, as for the anchor.
\* =========================================================================
VARIABLES box

boxVars == <<box>>

MaxChildren == 3

\* DebugRowContainer.getItemSize
GetItemSize(item) ==
    LET widthFromDisplay == Opt(item, "displayWidth", 0)
        heightFromDisplay == Opt(item, "displayHeight", 0)
        widthFromSize == Opt(item, "width", 0)
        heightFromSize == Opt(item, "height", 0)
    IN IF widthFromDisplay > 0 \/ heightFromDisplay > 0
       THEN [width |-> Max(0, widthFromDisplay), height |-> Max(0, heightFromDisplay)]
       ELSE IF widthFromSize > 0 \/ heightFromSize > 0
       THEN [width |-> Max(0, widthFromSize), height |-> Max(0, heightFromSize)]
       ELSE IF "bounds" \in DOMAIN item
       THEN [width |-> Max(0, item.bounds.width), height |-> Max(0, item.bounds.height)]
       ELSE [width |-> 0, height |-> 0]

\* the height DebugColumnContainer.layout takes: "displayHeight" in go ? go.displayHeight : 0
ColumnItemHeight(item) == Opt(item, "displayHeight", 0)

\* the order the loop of layout() visits the list in
Ordered(b) ==
    IF b.direction \in {"right-to-left", "bottom-to-top"}
    THEN [i \in 1..Len(b.list) |-> Len(b.list) + 1 - i]
    ELSE [i \in 1..Len(b.list) |-> i]

\* the loop of DebugRowContainer.layout from the k-th item visited on
RECURSIVE RowLoop(_, _, _, _)
RowLoop(b, list, k, cursor) ==
    IF k > Len(list) THEN list
    ELSE LET i == Ordered(b)[k]
             item == list[i]
             size == GetItemSize(item)
         IN IF ~Opt(item, "setPosition", FALSE) THEN RowLoop(b, list, k + 1, cursor)
            ELSE RowLoop(b,
                         [list EXCEPT ![i] = [item EXCEPT !.x2 = 2 * cursor + size.width,
                                                          !.y2 = 2 * b.paddingTop + size.height]],
                         k + 1,
                         cursor + size.width + b.spacing)

\* the loop of DebugColumnContainer.layout from the k-th item visited on
RECURSIVE ColumnLoop(_, _, _, _)
ColumnLoop(b, list, k, cursor) ==
    IF k > Len(list) THEN list
    ELSE LET i == Ordered(b)[k]
             item == list[i]
             h == ColumnItemHeight(item)
         IN IF ~Opt(item, "setPosition", FALSE) THEN ColumnLoop(b, list, k + 1, cursor)
            ELSE ColumnLoop(b,
                            [list EXCEPT ![i] = [item EXCEPT !.x2 = 2 * b.paddingLeft,
                                                             !.y2 = 2 * cursor + h]],
                            k + 1,
                            cursor + h + b.spacing)

\* layout() of either container
BoxLayout(b) ==
    [b EXCEPT !.list = IF b.kind = "row" THEN RowLoop(b, b.list, 1, b.paddingLeft)
                       ELSE ColumnLoop(b, b.list, 1, b.paddingTop)]

\* new DebugRowContainer(scene, options) and new DebugColumnContainer(scene, options);
\* `spacing` is spacingX of a row and spacingY of a column
NewBox(kind, options) ==
    [kind |-> kind,
     spacing |-> Opt(options, "spacing", 0),
     paddingLeft |-> Opt(options, "paddingLeft", 0),
     paddingTop |-> Opt(options, "paddingTop", 0),
     direction |-> Opt(options, "direction",
                       IF kind = "row" THEN "left-to-right" ELSE "top-to-bottom"),
     list |-> <<>>,
     op |-> "constructor"]

\* ------------------------------------------ inputs of the container checks
\* children: a displayed sprite, a zone with an explicit size only, a graphics
\* object measured by getBounds(), and an object that cannot be positioned; each
\* is where the host created it
BoxChildren ==
    {[displayWidth |-> 100, displayHeight |-> 50, width |-> 10, height |-> 10,
      setPosition |-> TRUE, x2 |-> 0, y2 |-> 0],
     [width |-> 30, height |-> 40, setPosition |-> TRUE, x2 |-> 0, y2 |-> 0],
     [bounds |-> [width |-> 60, height |-> 20], setPosition |-> TRUE, x2 |-> 0, y2 |-> 0],
     [displayWidth |-> 100, displayHeight |-> 50, x2 |-> 14, y2 |-> 14]}

BoxOptionsSet ==
    {<<>>, [spacing |-> 10], [spacing |-> 10, paddingLeft |-> 5, paddingTop |-> 7]}

BoxInit ==
    \E kind \in {"row", "column"}, options \in BoxOptionsSet,
       reversed \in BOOLEAN :
        box = NewBox(kind,
                     IF reversed
                     THEN options @@ [direction |-> IF kind = "row" THEN "right-to-left"
                                                    ELSE "bottom-to-top"]
                     ELSE options)

\* addItem(child)
BoxAddItem ==
    \E child \in BoxChildren :
        /\ Len(box.list) < MaxChildren
        /\ box' = [box EXCEPT !.list = Append(@, child), !.op = "addItem"]

\* setSpacingX(spacing) or setSpacingY(spacing)
BoxSetSpacing ==
    \E spacing \in {0, 10} :
        box' = [box EXCEPT !.spacing = spacing, !.op = "setSpacing"]

\* layout()
BoxLayoutOp == box' = [BoxLayout(box) EXCEPT !.op = "layout"]

BoxNext ==
    \/ BoxAddItem
    \/ BoxSetSpacing
    \/ BoxLayoutOp

\* =========================================================================
\* Part VIII.  Two scroll viewports, one an item of the other's content.  Each
\* registered its own listener on scene.input's "wheel", and the emit calls
\* both with the same arguments.
\* =========================================================================
VARIABLES nest

nestVars == <<nest>>

\* obj.parentContainer in the scene of the two viewports
NestedParent(obj) ==
    CASE obj = "outerWheelZone" -> "outer"
      [] obj = "outerContent" -> "outer"
      [] obj = "inner" -> "outerContent"
      [] obj = "caption" -> "outerContent"
      [] obj = "innerWheelZone" -> "inner"
      [] obj = "innerContent" -> "inner"
      [] obj = "innerItem" -> "innerContent"
      [] OTHER -> "none"

RECURSIVE HasNestedAncestor(_, _)
HasNestedAncestor(obj, me) ==
    LET parent == NestedParent(obj)
    IN IF parent = "none" THEN FALSE
       ELSE parent = me \/ HasNestedAncestor(parent, me)

\* ownsObject(obj) of the viewport `me`
OwnsNested(me, obj) ==
    \/ obj = (IF me = "outer" THEN "outerWheelZone" ELSE "innerWheelZone")
    \/ HasNestedAncestor(obj, me)

\* the currently-over list as the viewport `me` tells it apart: what it owns
\* stands to it as its own wheel zone does, the rest as a stranger
OverAsSeenBy(me, currentlyOver) ==
    {IF OwnsNested(me, obj) THEN "wheelZone" ELSE "stranger" : obj \in currentlyOver}

\* scene.input emits "wheel": the listener of each viewport runs handleWheel
EmitWheel(n, currentlyOver, deltaY, hasEvent) ==
    [n EXCEPT
       !.outer = HandleWheel(Fresh(n.outer), OverAsSeenBy("outer", currentlyOver), deltaY, hasEvent),
       !.inner = HandleWheel(Fresh(n.inner), OverAsSeenBy("inner", currentlyOver), deltaY, hasEvent)]

\* the inner viewport, 150 high, with 200 of content, and the outer one, 120
\* high, whose content is the inner viewport and a caption below it
InnerViewport ==
    AddItems(Construct([height |-> 150, wheelStep |-> 30]),
             {[id |-> 1, hasY |-> TRUE, y |-> 50, displayHeight |-> 100, height |-> 100,
               hasBounds |-> TRUE, boundsHeight |-> 100],
              [id |-> 2, hasY |-> TRUE, y |-> 150, displayHeight |-> 100, height |-> 100,
               hasBounds |-> TRUE, boundsHeight |-> 100]})

OuterViewport(wheelEnabled) ==
    AddItems(Construct([height |-> 120, wheelStep |-> 40, wheelEnabled |-> wheelEnabled]),
             {[id |-> 1, hasY |-> TRUE, y |-> 75, displayHeight |-> 0, height |-> 150,
               hasBounds |-> TRUE, boundsHeight |-> 150],
              [id |-> 2, hasY |-> TRUE, y |-> 170, displayHeight |-> 40, height |-> 40,
               hasBounds |-> TRUE, boundsHeight |-> 40]})

\* the call or event just made, and the two positions as it found them
Nested(n, name, over) ==
    [n EXCEPT !.op = name, !.over = over,
              !.was = [outer |-> n.outer.scrollY, inner |-> n.inner.scrollY]]

NestInit ==
    \E wheelEnabled \in BOOLEAN :
        nest = [outer |-> OuterViewport(wheelEnabled), inner |-> InnerViewport,
                op |-> "addItems", over |-> {}, was |-> [outer |-> 0, inner |-> 0]]

NestWheel ==
    \E over \in {{"innerWheelZone"}, {"innerItem"}, {"outerWheelZone"}, {"caption"},
                 {"innerWheelZone", "outerWheelZone"}, {"stranger"}},
       deltaY \in WheelDeltas, hasEvent \in BOOLEAN :
        nest' = EmitWheel(Nested(nest, "wheel", over), over, deltaY, hasEvent)

\* inner.setScrollY(value)
NestSetInner ==
    \E value \in ScrollTargets :
        nest' = [Nested(nest, "setInner", {}) EXCEPT !.inner = SetScrollY(Fresh(@), value)]

\* outer.scrollToTop()
NestOuterToTop ==
    nest' = [Nested(nest, "outerToTop", {}) EXCEPT !.outer = ScrollToTop(Fresh(@))]

NestNext ==
    \/ NestWheel
    \/ NestSetInner
    \/ NestOuterToTop

\* =========================================================================
\* Part IX.  The slider: a hit zone that takes "pointerdown", and two
\* listeners on scene.input, "pointermove" and "pointerup", that a press
\* registers and the end of the drag removes.
\* =========================================================================
VARIABLES sl

sliderVars == <<sl>>

\* the largest value of the sliders drawn; the track is as many pointer
\* units wide, so that a pointer unit is one step of value on the full range
MaxSliderValue == 4

\* Math.round(a / b), halves rounded up
RoundDiv(a, b) == (2 * a + b) \div (2 * b)

\* clampAndSnap(value)
ClampAndSnap(s, value) ==
    LET v == Clamp(value, s.min, s.max)
    IN IF s.step > 0
       THEN Clamp(RoundDiv(v - s.min, s.step) * s.step + s.min, s.min, s.max)
       ELSE v

\* setValue(value): redraws and emits "value-changed" when the value moves
SliderSetValue(s, value) ==
    LET clamped == ClampAndSnap(s, value)
    IN IF clamped = s.value THEN s
       ELSE [s EXCEPT !.value = clamped, !.emitted = @ + 1]

\* updateValueFromPointer(pointer); px is tmp.x + halfW in pointer units
UpdateValueFromPointer(s, px) ==
    LET ratioTimesWidth == Clamp(px, 0, MaxSliderValue)
    IN SliderSetValue(s, s.min + (ratioTimesWidth * (s.max - s.min)) \div MaxSliderValue)

\* applyEnabledState(): the hit zone takes input only while enabled
ApplyEnabledState(s) == [s EXCEPT !.interactive = s.isEnabled]

\* setEnabled(enabled)
SliderSetEnabled(s, enabled) == ApplyEnabledState([s EXCEPT !.isEnabled = enabled])

\* handlePointerDown(pointer)
HandlePointerDown(s, px) ==
    IF ~s.isEnabled THEN s
    ELSE [UpdateValueFromPointer([s EXCEPT !.isDragging = TRUE], px) EXCEPT !.listening = TRUE]

\* handlePointerMove(pointer)
HandlePointerMove(s, px) ==
    IF ~s.isDragging THEN s ELSE UpdateValueFromPointer(s, px)

\* stopDragging(), which handlePointerUp() calls
StopDragging(s) ==
    IF ~s.isDragging THEN s
    ELSE [s EXCEPT !.isDragging = FALSE, !.listening = FALSE]

\* new DebugSlider(scene, options)
NewSlider(options) ==
    LET fields == [min |-> 0, max |-> MaxSliderValue, step |-> options.step,
                   isEnabled |-> options.enabled, isDragging |-> FALSE, value |-> 0,
                   interactive |-> TRUE, listening |-> FALSE, emitted |-> 0,
                   name |-> "new", was |-> [value |-> 0, isEnabled |-> options.enabled]]
        made == ApplyEnabledState([fields EXCEPT !.value = ClampAndSnap(fields, options.value)])
    IN [made EXCEPT !.was = [value |-> made.value, isEnabled |-> made.isEnabled]]

\* the call or event just made, and the slider as it found it; the count of
\* emits starts again with each
SliderAt(s, name) ==
    [s EXCEPT !.name = name, !.emitted = 0,
              !.was = [value |-> s.value, isEnabled |-> s.isEnabled]]

PointerUnits == -1 .. MaxSliderValue + 1

SliderInit ==
    \E value \in 0 .. MaxSliderValue, step \in {0, 2}, enabled \in BOOLEAN :
        sl = NewSlider([value |-> value, step |-> step, enabled |-> enabled])

\* a press over the hit zone: the input plugin hands it to the zone's
\* listener only while the zone is interactive
SliderPointerDown ==
    \E px \in PointerUnits :
        sl' = IF sl.interactive THEN HandlePointerDown(SliderAt(sl, "pointerdown"), px)
              ELSE SliderAt(sl, "pointerdown")

\* scene.input emits "pointermove": the bound listener runs if registered
SliderPointerMove ==
    \E px \in PointerUnits :
        sl' = IF sl.listening THEN HandlePointerMove(SliderAt(sl, "pointermove"), px)
              ELSE SliderAt(sl, "pointermove")

\* scene.input emits "pointerup"
SliderPointerUp ==
    sl' = IF sl.listening THEN StopDragging(SliderAt(sl, "pointerup"))
          ELSE SliderAt(sl, "pointerup")

SliderSetEnabledOp ==
    \E enabled \in BOOLEAN :
        sl' = SliderSetEnabled(SliderAt(sl, "setEnabled"), enabled)

SliderSetValueOp ==
    \E value \in 0 .. MaxSliderValue :
        sl' = SliderSetValue(SliderAt(sl, "setValue"), value)

SliderNext ==
    \/ SliderPointerDown
    \/ SliderPointerMove
    \/ SliderPointerUp
    \/ SliderSetEnabledOp
    \/ SliderSetValueOp

\* =========================================================================
\* Specifications
\* =========================================================================
\* the part a specification does not exercise rests in its constructed state
SchedAtRest == watch = "scroll" /\ SchedInit

ScrollAtRest == sc = Construct(<<>>) /\ last = Did("constructor")

AnchorAtRest ==
    /\ an = AnchorToViewport([width |-> 800, height |-> 600], <<>>, [setPosition |-> TRUE])
    /\ alast = Called("anchorToViewport")

BindAtRest ==
    /\ bd = BindDebugControl([scene |-> TRUE, subscribe |-> TRUE, returnsUnsubscribe |-> TRUE,
                              once |-> TRUE, syncFromModelOnBind |-> TRUE,
                              syncFromModelEachFrame |-> TRUE], 1, 1)
    /\ bop = "bindDebugControl"

ConfigAtRest ==
    cf = BindResolve([getValue |-> TRUE, setValue |-> TRUE], {"getValue", "setValue", "on", "off"})

ButtonAtRest == btn = NewButton(<<>>)

BoxAtRest == box = NewBox("row", <<>>)

NestAtRest ==
    nest = [outer |-> OuterViewport(TRUE), inner |-> InnerViewport,
            op |-> "addItems", over |-> {}, was |-> [outer |-> 0, inner |-> 0]]

SliderAtRest ==
    sl = NewSlider([value |-> 0, step |-> 0, enabled |-> TRUE])

\* the parts a specification leaves in their constructed state
Idle == ScrollAtRest /\ AnchorAtRest /\ BindAtRest /\ ConfigAtRest /\ ButtonAtRest /\ BoxAtRest /\ NestAtRest /\ SliderAtRest

vars == <<schedVars, scrollVars, anchorVars, bindVars, configVars, buttonVars, boxVars, nestVars, sliderVars>>

Init == watch = "passes" /\ SchedInit /\ Idle

OrderInit == watch = "order" /\ SchedInit /\ Idle

Next == SchedNext /\ UNCHANGED <<watch, scrollVars, anchorVars, bindVars, configVars, buttonVars, boxVars, nestVars, sliderVars>>

Spec == Init /\ [][Next]_vars

OrderSpec == OrderInit /\ [][Next]_vars

\* the scene keeps emitting its frame event, and a layout() that was called
\* comes to an end, by returning or by throwing
FrameStep == FrameEvent /\ UNCHANGED <<watch, scrollVars, anchorVars, bindVars, configVars, buttonVars, boxVars, nestVars, sliderVars>>

LayoutEnds ==
    (LayoutReturn \/ LayoutThrow)
    /\ UNCHANGED <<watch, scrollVars, anchorVars, bindVars, configVars, buttonVars, boxVars, nestVars, sliderVars>>

LiveSpec == Init /\ [][Next]_vars /\ WF_vars(FrameStep) /\ WF_vars(LayoutEnds)

ScrollStart == SchedAtRest /\ ScrollInit /\ AnchorAtRest /\ BindAtRest /\ ConfigAtRest /\ ButtonAtRest /\ BoxAtRest /\ NestAtRest /\ SliderAtRest

ScrollStep == ScrollNext /\ UNCHANGED <<schedVars, anchorVars, bindVars, configVars, buttonVars, boxVars, nestVars, sliderVars>>

ScrollSpec == ScrollStart /\ [][ScrollStep]_vars

ViewportStart == SchedAtRest /\ ViewportInit /\ AnchorAtRest /\ BindAtRest /\ ConfigAtRest /\ ButtonAtRest /\ BoxAtRest /\ NestAtRest /\ SliderAtRest

ViewportStep == ViewportNext /\ UNCHANGED <<schedVars, anchorVars, bindVars, configVars, buttonVars, boxVars, nestVars, sliderVars>>

ViewportSpec == ViewportStart /\ [][ViewportStep]_vars

ThumbStart == SchedAtRest /\ ThumbInit /\ AnchorAtRest /\ BindAtRest /\ ConfigAtRest /\ ButtonAtRest /\ BoxAtRest /\ NestAtRest /\ SliderAtRest

ThumbStep == ThumbNext /\ UNCHANGED <<schedVars, anchorVars, bindVars, configVars, buttonVars, boxVars, nestVars, sliderVars>>

ThumbSpec == ThumbStart /\ [][ThumbStep]_vars

EmitStart == SchedAtRest /\ EmitInit /\ AnchorAtRest /\ BindAtRest /\ ConfigAtRest /\ ButtonAtRest /\ BoxAtRest /\ NestAtRest /\ SliderAtRest

EmitStep == EmitNext /\ UNCHANGED <<schedVars, anchorVars, bindVars, configVars, buttonVars, boxVars, nestVars, sliderVars>>

EmitSpec == EmitStart /\ [][EmitStep]_vars

AnchorStart == SchedAtRest /\ ScrollAtRest /\ AnchorInit /\ BindAtRest /\ ConfigAtRest /\ ButtonAtRest /\ BoxAtRest /\ NestAtRest /\ SliderAtRest

AnchorStep == AnchorNext /\ UNCHANGED <<schedVars, scrollVars, bindVars, configVars, buttonVars, boxVars, nestVars, sliderVars>>

AnchorSpec == AnchorStart /\ [][AnchorStep]_vars

BindStart == SchedAtRest /\ ScrollAtRest /\ AnchorAtRest /\ BindInit /\ ConfigAtRest /\ ButtonAtRest /\ BoxAtRest /\ NestAtRest /\ SliderAtRest

BindStep == BindNext /\ UNCHANGED <<schedVars, scrollVars, anchorVars, configVars, buttonVars, boxVars, nestVars, sliderVars>>

BindSpec == BindStart /\ [][BindStep]_vars

\* the binding side starts from every set of options with the anchor at rest,
\* the anchor side from an attach to each kind of target
ConfigStart ==
    /\ SchedAtRest /\ ScrollAtRest /\ BindAtRest /\ ButtonAtRest
    /\ BoxAtRest /\ NestAtRest /\ SliderAtRest
    /\ \/ ConfigInit /\ AnchorAtRest
       \/ /\ ConfigAtRest
          /\ \E target \in AnchorTargets :
                 an = AnchorToViewport([width |-> 800, height |-> 600], <<>>, target)
          /\ alast = Called("anchorToViewport")

ConfigStep == ConfigNext /\ UNCHANGED <<schedVars, scrollVars, bindVars, buttonVars, boxVars, nestVars, sliderVars>>

ConfigSpec == ConfigStart /\ [][ConfigStep]_vars

ButtonStart ==
    SchedAtRest /\ ScrollAtRest /\ AnchorAtRest /\ BindAtRest /\ ConfigAtRest /\ ButtonInit /\ BoxAtRest /\ NestAtRest /\ SliderAtRest

ButtonStep ==
    ButtonNext /\ UNCHANGED <<schedVars, scrollVars, anchorVars, bindVars, configVars, boxVars, nestVars, sliderVars>>

ButtonSpec == ButtonStart /\ [][ButtonStep]_vars

BoxStart ==
    /\ SchedAtRest /\ ScrollAtRest /\ AnchorAtRest /\ BindAtRest /\ ConfigAtRest /\ ButtonAtRest
    /\ BoxInit
    /\ NestAtRest
    /\ SliderAtRest

BoxStep ==
    BoxNext
    /\ UNCHANGED <<schedVars, scrollVars, anchorVars, bindVars, configVars, buttonVars, nestVars, sliderVars>>

BoxSpec == BoxStart /\ [][BoxStep]_vars

NestStart ==
    /\ SchedAtRest /\ ScrollAtRest /\ AnchorAtRest /\ BindAtRest /\ ConfigAtRest /\ ButtonAtRest
    /\ BoxAtRest
    /\ NestInit
    /\ SliderAtRest

NestStep ==
    NestNext
    /\ UNCHANGED <<schedVars, scrollVars, anchorVars, bindVars, configVars, buttonVars, boxVars, sliderVars>>

NestSpec == NestStart /\ [][NestStep]_vars

SliderStart ==
    /\ SchedAtRest /\ ScrollAtRest /\ AnchorAtRest /\ BindAtRest /\ ConfigAtRest /\ ButtonAtRest
    /\ BoxAtRest /\ NestAtRest
    /\ SliderInit

SliderStep ==
    SliderNext
    /\ UNCHANGED <<schedVars, scrollVars, anchorVars, bindVars, configVars, buttonVars, boxVars,
                   nestVars>>

SliderSpec == SliderStart /\ [][SliderStep]_vars

\* =========================================================================
\* Claims about the layout scheduler
\* =========================================================================

\* C1 (as stated): a top-level flush() or frame event on a live scheduler that
\* returns normally has invoked layout() exactly once for every target that was
\* marked dirty (any number of times) and pending when it was called.
C1_CoalescedOnce ==
    (lastFlush.outcome = "returned" /\ ~destroyed)
        => \A t \in Range(lastFlush.batch) : Count(log, t) = 1

\* C2 (as stated): within a pass, targets are laid out in the order of their
\* first markDirty since the last flush.
C2_FirstMarkOrder ==
    \A i, j \in 1..Len(log) :
        i < j => Pos(lastFlush.first, log[i]) < Pos(lastFlush.first, log[j])

\* C2 (amended): within a pass, targets are laid out in the insertion order of
\* the dirty set: by first markDirty since the later of the last flush snapshot
\* and the target's last remove()/clear().
C2_InsertionOrder ==
    /\ Range(log) \subseteq Range(lastFlush.order)
    /\ \A i, j \in 1..Len(log) :
           i < j => Pos(lastFlush.order, log[i]) < Pos(lastFlush.order, log[j])

\* C2 witness: a completed pass over two or more targets, one of which had been
\* marked, withdrawn and marked again behind a later-marked target.
C2_Witness ==
    /\ lastFlush.outcome = "returned"
    /\ Len(log) >= 2
    /\ lastFlush.first # lastFlush.order

\* C3 (as stated): a pass lays out only its snapshot; a target marked from inside
\* a pass is pending afterwards, and the next flush lays it out.
C3_DeferredToNextFlush ==
    /\ IsPrefix(log, lastFlush.batch)
    /\ deferred \subseteq Range(dirty)
    /\ (lastFlush.outcome = "returned" /\ ~destroyed)
           => lastFlush.deferred \subseteq Range(log)

\* C4: flush() or the frame event, arriving while a pass is in progress, starts
\* no nested pass, invokes no layout(), and leaves the outer pass's batch and the
\* pending targets as they are.
C4_NoNestedPass ==
    /\ [](Len(stack) <= 1)
    /\ [][(InPass /\ (Flush \/ FrameEvent))
            => (UNCHANGED <<schedProg, log>> /\ called' = {})]_vars

\* C4 witness: flush() was called from inside a layout() with targets pending.
C4_Witness ==
    /\ InPass
    /\ op = "flush"
    /\ called = {}
    /\ dirty # <<>>

\* C5 (as stated): when a layout() throws out of a pass, the flushing flag has
\* been reset by the time the exception leaves flush().
C5_FlagResetOnThrow ==
    lastFlush.outcome = "threw" => ~isFlushing

\* C6: once destroyed, the scheduler invokes no layout(), its dirty set is empty
\* and stays empty, the frame listener is detached, and nothing but the unwinding
\* of a pass that was in progress changes its state.
C6_DestroyedInert ==
    /\ [](destroyed => (called = {} /\ dirty = <<>> /\ ~flushListener))
    /\ [][destroyed => /\ destroyed'
                       /\ Len(stack') <= Len(stack)
                       /\ (TopLevel => UNCHANGED <<dirty, destroyed, isFlushing, flushListener, stack>>)]_vars

\* C6 witness: destroy() was called from inside a pass that still had targets to
\* lay out, and the pass has ended without laying them out.
C6_Witness ==
    /\ destroyed
    /\ op = "return"
    /\ lastFlush.outcome = "returned"
    /\ Len(log) < Len(lastFlush.batch)

\* C7 (as stated): the scheduler never invokes layout() on a target that was
\* remove()d and not marked dirty since.
C7_RemovedNotLaidOut ==
    called \cap withdrawn = {}

\* C23 (as stated): a target marked dirty on a live scheduler, and not removed or
\* cleared afterwards, with the scheduler not destroyed, has its layout() invoked
\* by the next frame event: that frame event begins a pass over the pending
\* targets, and the pass comes to the target; a frame event with nothing pending
\* invokes no layout().
C23_LaidOutByNextFrame ==
    /\ [][(op' = "frame" /\ TopLevel /\ ~destroyed /\ dirty # <<>>)
            => (stack' # <<>> /\ stack'[1].q = dirty)]_vars
    /\ \A t \in Targets :
           (t \in Range(dirty) /\ ~destroyed)
               ~> (t \in called \/ destroyed \/ t \in withdrawn \/ op = "clear")
    /\ [][(op' = "frame" /\ dirty = <<>>) => called' = {}]_vars

\* the part of C23 the code keeps: a frame event on a scheduler with two targets
\* pending, and no pass left unfinished before it, began a pass and invoked the
\* layout() of the first.
C23_FrameBeginsPass ==
    /\ op = "frame"
    /\ Len(stack) = 1
    /\ Len(stack[1].q) = 2
    /\ called = {stack[1].q[1]}
    /\ dirty = <<>>

\* =========================================================================
\* Claims about the scroll viewport
\* =========================================================================

\* C8: in every state the public operations reach, 0 <= getScrollY() <=
\* getMaxScrollY(), and getMaxScrollY() is contentHeight - viewportHeight when
\* that is positive and 0 otherwise.
C8_ScrollRange ==
    LET viewportHeight == IF sc.height - sc.paddingTop - sc.paddingBottom >= 1
                          THEN sc.height - sc.paddingTop - sc.paddingBottom ELSE 1
        maxScrollY == IF sc.contentHeight > viewportHeight
                      THEN sc.contentHeight - viewportHeight ELSE 0
    IN /\ 0 <= sc.scrollY
       /\ sc.scrollY <= maxScrollY
       /\ GetMaxScrollY(sc) = maxScrollY

\* C8 witness: an operation other than setScrollY shrank the scroll range and
\* its layout() brought scrollY down to the new, still positive, maximum.
C8_Witness ==
    /\ last.name = "other"
    /\ last.lowered
    /\ sc.scrollY > 0
    /\ sc.scrollY = GetMaxScrollY(sc)

\* every field of the container except what the last call emitted
Settled(c) == [c EXCEPT !.events = <<>>, !.prevented = FALSE, !.stopped = FALSE]

\* C9: setScrollY(value) leaves scrollY at value clamped into [0, maxScrollY];
\* when that differs from the previous scrollY it emits exactly one
\* scroll-changed carrying the new scrollY and the maximum, otherwise it emits
\* nothing and changes nothing.
C9_SetScrollY ==
    [][last'.name = "setScrollY" =>
        LET value == last'.arg
            maxScrollY == GetMaxScrollY(sc)
            target == IF value < 0 THEN 0 ELSE IF value > maxScrollY THEN maxScrollY ELSE value
        IN /\ sc'.scrollY = target
           /\ GetMaxScrollY(sc') = maxScrollY
           /\ IF target # sc.scrollY
              THEN sc'.events = <<<<target, maxScrollY>>>>
              ELSE sc'.events = <<>> /\ Settled(sc') = Settled(sc)]_vars

\* C9 witness: setScrollY was called with a value above the range while the
\* viewport was already scrolled to the bottom, and nothing was emitted.
C9_Witness ==
    /\ last.name = "setScrollY"
    /\ last.arg > GetMaxScrollY(sc)
    /\ GetMaxScrollY(sc) > 0
    /\ sc.scrollY = GetMaxScrollY(sc)
    /\ sc.events = <<>>

\* what layout() is claimed to leave alone when called again
Placement(c) == <<c.scrollY, c.contentMinY, c.contentHeight, c.contentX2, c.contentY2, c.thumb>>

\* C10: a layout() that directly follows a layout() leaves scrollY,
\* contentMinY, contentHeight, the content group's position and the thumb as
\* they were; and from any reachable state, laying out twice gives what laying
\* out once gives.
C10_LayoutIdempotent ==
    /\ [](Placement(Layout(Layout(sc))) = Placement(Layout(sc)))
    /\ [][(last.name \in {"layout", "layoutAgain"} /\ last'.name = "layoutAgain")
            => Placement(sc') = Placement(sc)]_vars

\* C10 witness: layout() has been called twice in a row on a scrolled viewport
\* whose thumb is drawn.
C10_Witness ==
    /\ last.name = "layoutAgain"
    /\ sc.scrollY > 0
    /\ sc.thumb.drawn

\* =========================================================================
\* Claims about a viewport in use
\* =========================================================================
Stacked == sc.list = ScenarioItems

ScenarioNumbers ==
    /\ sc.contentHeight = 490
    /\ GetMaxScrollY(sc) = 270
    /\ (last.name = "scrollToBottom" => sc.scrollY = 270)
    /\ ((last.name = "scrollBy" /\ last.arg = -1000) => sc.scrollY = 0)

\* C11 (as stated): a scroll viewport of height 220 holding the ten stacked
\* items has content height 490 and getMaxScrollY() 270; scrollToBottom() leaves
\* getScrollY() at 270 and a following scrollBy(-1000) leaves it at 0.
C11_Height220 == (Stacked /\ sc.height = 220) => ScenarioNumbers

\* C11 (amended): the numbers hold when the visible height, i.e. the height less
\* the top and bottom padding, is 220; a viewport of height 220 with the default
\* padding of 10 has a visible height of 200 and getMaxScrollY() 290.
C11_VisibleHeight220 ==
    /\ (Stacked /\ GetViewportHeight(sc) = 220) => ScenarioNumbers
    /\ (Stacked /\ sc.height = 220 /\ sc.paddingTop = DefaultPadding
               /\ sc.paddingBottom = DefaultPadding)
           => /\ sc.contentHeight = 490
              /\ GetMaxScrollY(sc) = 290
              /\ (last.name = "scrollToBottom" => sc.scrollY = 290)
              /\ ((last.name = "scrollBy" /\ last.arg = -1000) => sc.scrollY = 0)

\* C11 witness: with a visible height of 220 and the ten items, scrollBy(-1000)
\* was called at the bottom, 270, and left the viewport at the top.
C11_Witness ==
    /\ Stacked
    /\ GetViewportHeight(sc) = 220
    /\ last.name = "scrollBy"
    /\ last.arg = -1000
    /\ last.from = 270
    /\ sc.scrollY = 0

WheelSeen == last.name = "wheel" /\ ~sc.destroyed

WheelRequest ==
    Clamp(last.from + (IF last.arg > 0 THEN 1 ELSE -1) * sc.wheelStep, 0, GetMaxScrollY(sc))

WheelIgnored == sc.scrollY = last.from /\ sc.events = <<>>

\* C12 (as stated): a wheel event scrolls the viewport only if wheel scrolling
\* is enabled, deltaY is not 0 and some object under the pointer is the wheel
\* hit-zone or a descendant of the content group; then scrollY becomes the old
\* scrollY plus sign(deltaY) * wheelStep, clamped; otherwise scrollY is unchanged
\* and no scroll-changed is emitted.
C12_WheelOverContent ==
    WheelSeen =>
        IF /\ sc.wheelEnabled
           /\ last.arg # 0
           /\ \E obj \in last.over : obj = "wheelZone" \/ HasAncestor(obj, "content")
        THEN sc.scrollY = WheelRequest
        ELSE WheelIgnored

\* C12 (amended): the same, with the ownership test as the code makes it: some
\* object under the pointer is the wheel hit-zone or a descendant of the viewport
\* itself, which covers the content group's descendants and also anything the
\* host added to the viewport directly.
C12_WheelOverViewport ==
    WheelSeen =>
        IF /\ sc.wheelEnabled
           /\ last.arg # 0
           /\ \E obj \in last.over : obj = "wheelZone" \/ HasAncestor(obj, "viewport")
        THEN sc.scrollY = WheelRequest
        ELSE WheelIgnored

\* C12 witness: a wheel event over an object added to the viewport directly,
\* outside the content group, has scrolled the list.
C12_Witness ==
    /\ WheelSeen
    /\ last.over = {"header"}
    /\ sc.scrollY # last.from
    /\ sc.events = <<<<sc.scrollY, GetMaxScrollY(sc)>>>>

\* C13: on a wheel event carrying a platform event, preventDefault() and
\* stopPropagation() are both called if the scroll position changed and neither
\* is called if it did not, as when the viewport is already at the bound in the
\* wheel's direction.
C13_SuppressedIffScrolled ==
    (WheelSeen /\ last.event) =>
        /\ sc.prevented <=> sc.scrollY # last.from
        /\ sc.stopped <=> sc.scrollY # last.from

\* C13 witness: a qualifying wheel event arrived with the viewport at the bottom
\* of a scrollable list, pointing down, and was not suppressed.
C13_Witness ==
    /\ WheelSeen
    /\ last.event
    /\ sc.wheelEnabled
    /\ last.over = {"wheelZone"}
    /\ last.arg > 0
    /\ last.from = GetMaxScrollY(sc)
    /\ last.from > 0
    /\ ~sc.prevented
    /\ ~sc.stopped

AfterLayout == last.name \in {"layout", "addItem", "addItems", "removeAllItems"} /\ ~sc.destroyed

\* twice the half height: displayed height, else explicit height, else the
\* bounding box's height, else 0
Extent(it) ==
    IF it.displayHeight > 0 THEN it.displayHeight
    ELSE IF it.height > 0 THEN it.height
    ELSE IF it.hasBounds THEN it.boundsHeight
    ELSE 0

\* contentMinY and contentHeight are the bounds of the children in `items`, each
\* taken at `y`
BoundsOf(items, y(_)) ==
    IF items = {} THEN sc.contentMinY = 0 /\ sc.contentHeight = 0 /\ GetMaxScrollY(sc) = 0
    ELSE /\ \A it \in items : 2 * sc.contentMinY <= 2 * y(it) - Extent(it)
         /\ \E it \in items : 2 * sc.contentMinY = 2 * y(it) - Extent(it)
         /\ \A it \in items : 2 * (sc.contentMinY + sc.contentHeight) >= 2 * y(it) + Extent(it)
         /\ \E it \in items : 2 * (sc.contentMinY + sc.contentHeight) = 2 * y(it) + Extent(it)

OwnY(it) == it.y

\* C14 (as stated): after layout(), contentMinY and contentHeight are the bounds
\* of the children that have a position, children without one being skipped;
\* with no such children both are 0 and so is getMaxScrollY().
C14_SkipsUnpositioned == AfterLayout => BoundsOf({it \in sc.list : it.hasY}, OwnY)

\* C14 (amended): after layout(), contentMinY and contentHeight are the bounds of
\* all the children, a child without a position being taken at y = 0; with no
\* children both are 0 and so is getMaxScrollY().
C14_UnpositionedAtZero == AfterLayout => BoundsOf(sc.list, ItemY)

\* C14 witness: layout() has measured the stacked items together with a child
\* that has a height and no position, which lowered contentMinY below 0.
C14_Witness ==
    /\ AfterLayout
    /\ ScenarioItems \subseteq sc.list
    /\ \E it \in sc.list : ~it.hasY
    /\ sc.contentMinY < 0

\* C15 (as stated): destroy() detaches the wheel listener, and on a destroyed
\* viewport neither a wheel event nor setScrollY / scrollBy / scrollToTop /
\* scrollToBottom changes getScrollY() or emits scroll-changed.
C15_DestroyedViewportInert ==
    sc.destroyed =>
        /\ ~sc.wheelListener
        /\ (last.name \in {"wheel", "setScrollY", "scrollBy", "scrollToTop", "scrollToBottom"})
               => (sc.scrollY = last.from /\ sc.events = <<>>)

\* the part of C15 the code keeps: a wheel event after destroy() finds no handler
C15_WheelAfterDestroy ==
    /\ sc.destroyed
    /\ last.name = "wheel"
    /\ last.arg # 0
    /\ last.over = {"wheelZone"}
    /\ sc.wheelEnabled
    /\ GetMaxScrollY(sc) > 0

\* C24 (as stated): whenever a thumb is drawn, whatever the minimum thumb height,
\* the thumb is no higher than the viewport and lies inside the track: it starts
\* at the track's top when scrollY = 0, ends at the track's bottom when
\* scrollY = maxScrollY, and is between the two otherwise; no thumb is drawn when
\* the content is no higher than the viewport.  With thumbHeight = heightNum / den
\* and thumbY = top + offsetNum / (den * maxScroll), the inequalities are
\* multiplied out.
C24_ThumbContained ==
    /\ sc.thumb.drawn =>
         LET t == sc.thumb
         IN /\ sc.scrollbarEnabled /\ GetMaxScrollY(sc) > 0
            /\ t.heightNum <= t.trackHeight * t.den
            /\ t.offsetNum >= 0
            /\ t.offsetNum + t.heightNum * t.maxScroll <= t.trackHeight * t.den * t.maxScroll
            /\ sc.scrollY = 0 => t.offsetNum = 0
            /\ sc.scrollY = t.maxScroll =>
                   t.offsetNum + t.heightNum * t.maxScroll = t.trackHeight * t.den * t.maxScroll
    /\ sc.contentHeight <= GetViewportHeight(sc) => ~sc.thumb.drawn

\* the part of C24 the code keeps: with a minimum thumb height that fits the
\* viewport, the thumb drawn at the bottom of the range ends at the track's bottom.
C24_ThumbAtBottom ==
    /\ last.name = "scrollToBottom"
    /\ sc.thumb.drawn
    /\ sc.scrollY = sc.thumb.maxScroll
    /\ sc.scrollbarMinThumbHeight = 60
    /\ sc.thumb.heightNum = 60 * sc.thumb.den
    /\ sc.thumb.offsetNum + sc.thumb.heightNum * sc.thumb.maxScroll
         = sc.thumb.trackHeight * sc.thumb.den * sc.thumb.maxScroll

\* C29: "scroll-changed" is emitted only by setScrollY, scrollBy, scrollToTop,
\* scrollToBottom and the wheel; layout() and the operations that run it (addItem,
\* addItems, removeItem, removeAllItems, setViewportSize, setPadding, setStyle)
\* emit nothing, also when their re-clamp lowers scrollY.
C29_EmittedOnlyBySetScrollY ==
    /\ sc.events # <<>> =>
           last.name \in {"setScrollY", "scrollBy", "scrollToTop", "scrollToBottom", "wheel"}
    /\ last.name \in {"layout", "addItem", "addItems", "removeItem", "removeAllItems",
                      "setViewportSize", "setPadding", "setStyle"} => sc.events = <<>>

\* C29 witness: removeItem() took the last child away from a viewport scrolled to
\* the bottom, the re-clamp of its layout() lowered scrollY, and nothing was emitted.
C29_Witness ==
    /\ last.name = "removeItem"
    /\ LastItem \notin sc.list
    /\ sc.scrollY < last.from
    /\ sc.scrollY = GetMaxScrollY(sc)
    /\ sc.scrollY > 0
    /\ sc.events = <<>>

\* =========================================================================
\* Claims about the viewport anchor
\* =========================================================================
\* the binding has just placed its target: attach, update() or, with autoResize,
\* a resize event
JustPlaced ==
    /\ an.handle
    /\ ~an.destroyed
    /\ \/ alast.name \in {"anchorToViewport", "update"}
       \/ alast.name = "resize" /\ an.autoResize

AnchorInsets == IF an.useSafeArea THEN GetSafeAreaInsets(an.scene, an.safeArea) ELSE ZeroInsets

AnchorLeft == GetViewportRect(an.scene).x + AnchorInsets.left

AnchorRight == GetViewportRect(an.scene).x + GetViewportRect(an.scene).width - AnchorInsets.right

AnchorTop == GetViewportRect(an.scene).y + AnchorInsets.top

AnchorBottom == GetViewportRect(an.scene).y + GetViewportRect(an.scene).height - AnchorInsets.bottom

\* twice the coordinate the named anchor asks for; an inset-adjusted viewport
\* whose insets overlap counts as empty, at its left / top edge
ExpectedX2 ==
    CASE an.anchor \in {"top-left", "center-left", "bottom-left"} ->
             2 * AnchorLeft + GetDisplaySize(an.target).width
      [] an.anchor \in {"top-center", "center", "bottom-center"} ->
             IF AnchorRight >= AnchorLeft THEN AnchorLeft + AnchorRight ELSE 2 * AnchorLeft
      [] an.anchor \in {"top-right", "center-right", "bottom-right"} ->
             2 * AnchorRight - GetDisplaySize(an.target).width

ExpectedY2 ==
    CASE an.anchor \in {"top-left", "top-center", "top-right"} ->
             2 * AnchorTop + GetDisplaySize(an.target).height
      [] an.anchor \in {"center-left", "center", "center-right"} ->
             IF AnchorBottom >= AnchorTop THEN AnchorTop + AnchorBottom ELSE 2 * AnchorTop
      [] an.anchor \in {"bottom-left", "bottom-center", "bottom-right"} ->
             2 * AnchorBottom - GetDisplaySize(an.target).height

\* a 100x50 target at top-right with offset (-10, 10) in an 800x600 viewport
\* with zero insets
AnchorExample ==
    /\ an.anchor = "top-right"
    /\ an.offsetX = -10
    /\ an.offsetY = 10
    /\ GetDisplaySize(an.target) = [width |-> 100, height |-> 50]
    /\ GetViewportRect(an.scene) = [x |-> 0, y |-> 0, width |-> 800, height |-> 600]
    /\ AnchorInsets = ZeroInsets

\* C16: right after anchorToViewport(...), after update() and, with autoResize,
\* after a resize event, the target is at (X + offsetX, Y + offsetY) for the
\* named anchor within the inset-adjusted viewport; the example is at (740, 35).
C16_AnchorPlacement ==
    JustPlaced =>
        /\ an.x2 = ExpectedX2 + 2 * an.offsetX
        /\ an.y2 = ExpectedY2 + 2 * an.offsetY
        /\ AnchorExample => (an.x2 = 2 * 740 /\ an.y2 = 2 * 35)

\* C16 witness: a resize event has placed the example's target at (740, 35).
C16_Witness ==
    /\ JustPlaced
    /\ alast.name = "resize"
    /\ AnchorExample
    /\ an.x2 = 1480
    /\ an.y2 = 70

\* C17: once the handle is destroyed, by handle.destroy(), by the target's
\* destroy event or by the host's shutdown, isDestroyed() stays true, no resize
\* or shutdown listener of the binding is registered, and no later resize event,
\* update() or destroy() moves the target or changes the binding; destroy() from
\* inside a resize callback stops that very resize from moving the target.
C17_AnchorTornDown ==
    /\ [](an.destroyed => (~an.resizeListener /\ ~an.shutdownListener))
    /\ [][(\/ alast'.name = "destroy"
           \/ alast'.name = "resizeAndDestroy"
           \/ alast'.name = "shutdown" /\ an.shutdownListener
           \/ alast'.name = "targetDestroy" /\ an.destroyListener) => an'.destroyed]_vars
    /\ [][alast'.name = "resizeAndDestroy" => (an'.x2 = an.x2 /\ an'.y2 = an.y2)]_vars
    /\ [][an.destroyed =>
            /\ an'.destroyed
            /\ an'.x2 = an.x2
            /\ an'.y2 = an.y2
            /\ (alast'.name = "destroy" => an' = Quiet(an))]_vars

\* C17 witness: update() was called on a destroyed handle after the host had
\* been resized, and the target stayed where it was, away from the anchor.
C17_Witness ==
    /\ an.handle
    /\ an.destroyed
    /\ alast.name = "update"
    /\ an.x2 # ExpectedX2 + 2 * an.offsetX

\* the platform's inset of a side, zero when it is not read or not there
PlatformInset(side) ==
    IF Opt(alast.options, "useCssEnvInsets", TRUE)
    THEN Opt(an.scene, "css", ZeroInsets)[side] ELSE 0

ExtraInset(side) == Opt(Opt(alast.options, "extraInsets", <<>>), side, 0)

NoRenderedSurface ==
    \/ "canvas" \notin DOMAIN an.scene
    \/ an.scene.canvas.width <= 0
    \/ an.scene.canvas.height <= 0

\* inset = max(0, platform * logical / rendered + extra), without dividing
ResolvedSide(side, logical, rendered) ==
    /\ an.insets[side] >= 0
    /\ IF NoRenderedSurface
       THEN an.insets[side] = Max(0, PlatformInset(side) + ExtraInset(side))
       ELSE an.insets[side] * rendered
                = Max(0, PlatformInset(side) * logical + ExtraInset(side) * rendered)

\* C18: getSafeAreaInsets returns, for each side, max(0, platformInset * scale +
\* extraInset), scale being logical size / rendered size per axis and (1, 1)
\* when the rendered surface is missing or has no width or no height; no inset
\* is negative; platform top 20 at 1:1 with extra top 5 gives top 25.
C18_SafeAreaInsets ==
    alast.name = "getSafeAreaInsets" =>
        /\ ResolvedSide("left", an.scene.width, Opt(an.scene, "canvas", <<>>).width)
        /\ ResolvedSide("right", an.scene.width, Opt(an.scene, "canvas", <<>>).width)
        /\ ResolvedSide("top", an.scene.height, Opt(an.scene, "canvas", <<>>).height)
        /\ ResolvedSide("bottom", an.scene.height, Opt(an.scene, "canvas", <<>>).height)
        /\ (/\ ~NoRenderedSurface
            /\ an.scene.canvas = [width |-> an.scene.width, height |-> an.scene.height]
            /\ PlatformInset("top") = 20
            /\ ExtraInset("top") = 5) => an.insets.top = 25

\* C18 witness: platform top 20 at 1:1 with extra top 5 has resolved to top 25.
C18_Witness ==
    /\ alast.name = "getSafeAreaInsets"
    /\ ~NoRenderedSurface
    /\ an.scene.canvas = [width |-> an.scene.width, height |-> an.scene.height]
    /\ PlatformInset("top") = 20
    /\ ExtraInset("top") = 5
    /\ an.insets.top = 25

\* C26 (as stated): an anchorToViewport call that threw, because the target has
\* no setPosition, leaves none of its listeners behind: neither on the scale
\* manager's "resize", nor on the scene's "shutdown", nor on the target's
\* "destroy"; so a later resize does not run its placement and does not throw.
C26_FailedAttachLeavesNoTrace ==
    ~an.handle =>
        /\ ~an.resizeListener
        /\ ~an.shutdownListener
        /\ ~an.destroyListener
        /\ alast.name = "resize" => ~an.threw

\* the part of C26 the code keeps: after the scene's shutdown the listeners of
\* the failed attach are off, and a resize no longer throws.
C26_QuietAfterShutdown ==
    /\ ~an.handle
    /\ ~Opt(an.target, "setPosition", FALSE)
    /\ an.autoResize
    /\ an.destroyed
    /\ alast.name = "resize"
    /\ ~an.resizeListener
    /\ ~an.threw

\* =========================================================================
\* Claims about the data binding
\* =========================================================================
\* C19 (as stated): model.set is never called while an adapter.write is running,
\* and adapter.write is never called while a model.set is running, whatever the
\* host code does from inside them.
C19_NoFeedbackLoop ==
    \A i, j \in 1..Len(bd.stack) :
        i < j => bd.stack[i].call = bd.stack[j].call

\* the part of C19 the guards keep: a control event fired from inside a single
\* adapter.write, with a value the model does not have, is not pushed.
C19_EventInsideWrite ==
    /\ bop = "controlEvent"
    /\ bd.subscribed
    /\ ~bd.destroyed
    /\ Len(bd.stack) = 1
    /\ bd.stack[1].call = "write"
    /\ bd.control # bd.stack[1].value
    /\ bd.model = bd.stack[1].value

\* C20: once the binding is destroyed, by destroy(), by the control's destroy
\* event or by the host's shutdown, the unsubscribe function the adapter gave has
\* been called exactly once, the frame and shutdown listeners are off, and no
\* later frame poll, control event, syncFromModel() or syncFromControl() calls
\* adapter.write or model.set; a repeated destroy() changes nothing.
C20_BindingTornDown ==
    /\ [](bd.destroyed =>
            /\ bd.unsubscribed
                 = (IF bd.options.subscribe /\ bd.options.returnsUnsubscribe THEN 1 ELSE 0)
            /\ ~bd.unsubscribeControl
            /\ ~bd.preupdateListener
            /\ ~bd.shutdownListener)
    /\ [](~bd.destroyed => bd.unsubscribed = 0)
    /\ [][bop' \in {"destroy", "controlDestroy", "shutdown"} => bd'.destroyed]_vars
    /\ [][bd.destroyed =>
            /\ bd'.destroyed
            /\ Len(bd'.stack) <= Len(bd.stack)
            /\ bd'.model = bd.model \/ bop' = "modelWrite"
            /\ bd'.control = bd.control \/ bop' = "controlEvent"
            /\ (bop' = "destroy" => bd' = bd)]_vars

\* C20 witness: syncFromModel() was called on a destroyed binding whose model
\* differs from the value last pushed, with no push in progress, and wrote nothing.
C20_Witness ==
    /\ bd.destroyed
    /\ bop = "syncFromModel"
    /\ bd.stack = <<>>
    /\ ~bd.pushingControlToModel
    /\ bd.model # bd.lastModelValue
    /\ bd.control # bd.model
    /\ bd.unsubscribed = 1

\* C28 (as stated): on a live binding with no push in progress, when
\* syncFromModel() has returned the control has the model's value, and when
\* syncFromControl() has returned the model has the control's value, whatever
\* model writes, control changes, frame polls and syncs came before.  (A sync
\* that has returned with no call on the stack is one that was called with no
\* push in progress and made no push of its own.)
C28_SyncEstablishesAgreement ==
    (/\ bop \in {"syncFromModel", "syncFromControl"}
     /\ ~bd.destroyed
     /\ bd.stack = <<>>
     /\ ~bd.pushingModelToControl
     /\ ~bd.pushingControlToModel)
        => bd.control = bd.model

\* the part of C28 the code keeps: syncFromModel() on a model that differs from
\* the value last pushed writes the model's value to the control.
C28_SyncWrites ==
    /\ bop = "syncFromModel"
    /\ ~bd.destroyed
    /\ Len(bd.stack) = 1
    /\ bd.stack[1] = [call |-> "write", value |-> bd.model]
    /\ bd.hasLastModelValue
    /\ bd.lastModelValue # bd.model
    /\ bd.control = bd.model

\* =========================================================================
\* Claims about configuration errors
\* =========================================================================
\* the options name a model: getValue and setValue, or a target and a path
\* that parses to at least one token
NamesModel(options) ==
    \/ Opt(options, "getValue", FALSE) /\ Opt(options, "setValue", FALSE)
    \/ /\ Opt(options, "target", FALSE)
       /\ "path" \in DOMAIN options
       /\ ParsePath(options.path) # <<>>

\* a function f of the adapter is given in the options or can be inferred
CanSupply(c, f) ==
    \/ Opt(Opt(c.options, "adapter", <<>>), f, "undefined") # "undefined"
    \/ Opt(InferAdapter(c.control), f, "undefined") # "undefined"

\* C21: bindDebugControl throws inside the call exactly when the options name
\* no model (neither getValue and setValue, nor a target with a path that has
\* a token) or no read and write can be given or inferred, and anchorToViewport
\* throws inside the call exactly when the target has no setPosition; a call
\* that returned never meets a missing function or a missing setPosition at a
\* later frame, resize, control event or sync.
C21_ConfigErrorsFailFast ==
    /\ cf.returned <=> (NamesModel(cf.options) /\ CanSupply(cf, "read") /\ CanSupply(cf, "write"))
    /\ cf.returned <=> cf.threw = NoError
    /\ cf.late = NoError
    /\ an.handle <=> Opt(an.target, "setPosition", FALSE)
    /\ alast.name = "anchorToViewport" => (an.threw <=> ~an.handle)
    /\ an.handle => ~an.threw

\* C21 witness: a bind with a target and the path "[.]", which has no token,
\* threw "path cannot be empty", and a frame event came afterwards.
C21_Witness ==
    /\ cf.options = [target |-> TRUE, path |-> <<"[", ".", "]">>]
    /\ cf.threw = "path cannot be empty"
    /\ ~cf.returned
    /\ cf.op = "preupdate"

\* C21, the anchor: an attach to a target without setPosition threw and gave no handle
C21_AttachThrew ==
    /\ alast.name = "anchorToViewport"
    /\ ~Opt(an.target, "setPosition", FALSE)
    /\ an.threw
    /\ ~an.handle

\* =========================================================================
\* Claims about the button
\* =========================================================================
\* C22: while a button is disabled, by its options or by setEnabled(false), a
\* pointerup runs no click handler, the button is never in the hover state and
\* the state drawn is "disabled"; every setEnabled that changes the flag clears
\* hover, and a button only comes to hover by a pointerover on an enabled button.
C22_EnabledContract ==
    /\ [](\A i \in 1..Len(btn.calls) : btn.calls[i].enabled)
    /\ [](~btn.isEnabled => ~btn.isHovering /\ btn.drawn = "disabled")
    /\ [](btn.drawn = ResolveVisualState(btn))
    /\ [][btn'.isEnabled # btn.isEnabled => ~btn'.isHovering]_vars
    /\ [][~btn.isEnabled /\ btn'.op = "pointerup" => btn'.calls = <<>>]_vars
    /\ [][~btn.isHovering /\ btn'.isHovering => btn.isEnabled /\ btn'.op = "pointerover"]_vars

\* C22 witness: a pointerup on a button with two handlers, the first of which
\* disabled it: the second handler was not run, and the pointer is still over the
\* button, which had been hovered.
C22_Witness ==
    /\ btn.op = "pointerup"
    /\ btn.handlers = <<"disables", "plain">>
    /\ Len(btn.calls) = 1
    /\ ~btn.isEnabled
    /\ btn.over
    /\ btn.drawn = "disabled"

\* =========================================================================
\* Claims about the layout containers
\* =========================================================================
\* the items layout() positions, in the order it visits them
Visited(b) ==
    SelectSeq([k \in 1..Len(b.list) |-> b.list[Ordered(b)[k]]],
              LAMBDA item : Opt(item, "setPosition", FALSE))

\* the size of an item by the probe: displayed, else explicit, else bounds, else 0
Probe(item) == GetItemSize(item)

\* C25 (as stated): after layout(), a row and a column alike place consecutive
\* children edge to edge by their probed size (displayed size, else explicit
\* size, else bounding box, else zero): each child begins where the one before
\* it ends, plus the spacing, and the first begins at the padding; in
\* particular a column of children that have only an explicit height does not
\* overlap them.
C25_UniformProbe ==
    box.op = "layout" =>
        LET v == Visited(box)
        IN IF box.kind = "row"
           THEN /\ v # <<>> => v[1].x2 - Probe(v[1]).width = 2 * box.paddingLeft
                /\ \A k \in 1..(Len(v) - 1) :
                       v[k + 1].x2 - Probe(v[k + 1]).width
                           = v[k].x2 + Probe(v[k]).width + 2 * box.spacing
           ELSE /\ v # <<>> => v[1].y2 - Probe(v[1]).height = 2 * box.paddingTop
                /\ \A k \in 1..(Len(v) - 1) :
                       v[k + 1].y2 - Probe(v[k + 1]).height
                           = v[k].y2 + Probe(v[k]).height + 2 * box.spacing

\* the part of C25 the code keeps: a row of a zone with an explicit size only, a
\* graphics object and a sprite was laid out from right to left with spacing 10,
\* edge to edge by the probed widths.
C25_RowOfThree ==
    /\ box.op = "layout"
    /\ box.kind = "row"
    /\ box.direction = "right-to-left"
    /\ box.spacing = 10
    /\ Len(box.list) = 3
    /\ "displayWidth" \notin DOMAIN box.list[3]
    /\ "bounds" \in DOMAIN box.list[2]
    /\ "displayWidth" \in DOMAIN box.list[1]
    /\ \A i \in 1..3 : Opt(box.list[i], "setPosition", FALSE)
    /\ box.list[2].x2 - 60 = box.list[3].x2 + 30 + 20
    /\ box.list[1].x2 - 100 = box.list[2].x2 + 60 + 20

\* =========================================================================
\* Claims about nested viewports
\* =========================================================================
\* C27 (as stated): a wheel event whose currently-over list holds only the inner
\* viewport's wheel zone changes the outer viewport's scrollY only if it did not
\* change the inner's; it never scrolls both.
C27_NeverScrollsBoth ==
    (nest.op = "wheel" /\ nest.over = {"innerWheelZone"})
        => (nest.outer.scrollY # nest.was.outer => nest.inner.scrollY = nest.was.inner)

\* the part of C27 the code keeps: with the inner viewport at the end of its
\* range, a wheel event over its wheel zone leaves it where it is, leaves the
\* platform event alone on its side, and scrolls the outer viewport.
C27_PassedOn ==
    /\ nest.op = "wheel"
    /\ nest.over = {"innerWheelZone"}
    /\ nest.was.inner = GetMaxScrollY(nest.inner)
    /\ nest.inner.scrollY = nest.was.inner
    /\ nest.was.inner > 0
    /\ ~nest.inner.prevented
    /\ nest.outer.scrollY > nest.was.outer

\* =========================================================================
\* Claims about the slider
\* =========================================================================
\* C30 (as stated): a pointer event that occurs while the slider is disabled
\* never changes the slider's value, a pointermove of a drag that began before
\* setEnabled(false) included.
C30_DisabledTakesNoPointerInput ==
    (sl.name \in {"pointerdown", "pointermove", "pointerup"} /\ ~sl.was.isEnabled)
        => sl.value = sl.was.value

\* the part of C30 the code keeps: a press on a disabled slider starts no drag
\* and moves nothing.
C30_DisabledPressIgnored ==
    /\ sl.name = "pointerdown"
    /\ ~sl.was.isEnabled
    /\ ~sl.isDragging
    /\ ~sl.listening
    /\ sl.value = sl.was.value
    /\ sl.emitted = 0

====
